---------------------------- MODULE Spec2Model ----------------------------
(***************************************************************************)
(* Borehole edge-scoring engine: SMS parser, feature mapper, inference     *)
(* engine singleton, security module and the mobile orchestrator.          *)
(*                                                                         *)
(* Representation choices                                                  *)
(*  - float64 values are fixed-point integers counting 1/Scale units       *)
(*    (Scale = 10: one decimal digit), so 1,500.00 is 15000 and 0.5 is 5.  *)
(*  - An SMS line is a sequence of tokens: words (kept upper-case, since   *)
(*    every word-level regexp is compiled with (?i) and the keyword scan   *)
(*    upper-cases the line), digit strings, amounts (currency prefix as    *)
(*    written plus the characters that follow it) and reference codes      *)
(*    (their characters).  Tokens are separated by single blanks.          *)
(***************************************************************************)
EXTENDS Integers, Sequences, FiniteSets, TLC

(***************************************************************************)
(* Fixed-point arithmetic standing for float64                             *)
(***************************************************************************)
Scale == 5 * 2

F(n) == n * Scale

Half == Scale \div 2

\* The largest finite magnitude.  The range of float64 is narrowed so that
\* sums and squares of the largest amounts a line can carry leave it, as
\* they do in float64 for amounts near 1e308 and 1e154.
MaxFloat == Scale ^ 8

\* +Inf, -Inf and NaN
PInf == MaxFloat + 1

NInf == 0 - PInf

NaN == MaxFloat + 2

IsInf(x) == x \in {PInf, NInf}

\* A result that has left the finite range becomes an infinity
Round(x) == IF x > MaxFloat THEN PInf ELSE IF x < 0 - MaxFloat THEN NInf ELSE x

FAdd(a, b) ==
    IF a = NaN \/ b = NaN \/ {a, b} = {PInf, NInf} THEN NaN
    ELSE IF IsInf(a) THEN a
    ELSE IF IsInf(b) THEN b
    ELSE Round(a + b)

FSub(a, b) == FAdd(a, IF b = NaN THEN NaN ELSE 0 - b)

\* The sign of a product or quotient of a and b, as an infinity
SignedInf(a, b) == IF (a < 0) = (b < 0) THEN PInf ELSE NInf

FMul(a, b) ==
    IF a = NaN \/ b = NaN THEN NaN
    ELSE IF IsInf(a) \/ IsInf(b)
    THEN IF a = 0 \/ b = 0 THEN NaN ELSE SignedInf(a, b)
    ELSE IF a # 0 /\ (IF b < 0 THEN 0 - b ELSE b) >
                       (MaxFloat * Scale + Scale) \div (IF a < 0 THEN 0 - a ELSE a)
    THEN SignedInf(a, b)
    ELSE Round((a * b) \div Scale)

FDiv(a, b) ==
    IF a = NaN \/ b = NaN \/ (IsInf(a) /\ IsInf(b)) \/ (a = 0 /\ b = 0) THEN NaN
    ELSE IF IsInf(a) \/ b = 0 THEN SignedInf(a, b)
    ELSE IF IsInf(b) THEN 0
    ELSE Round((a * Scale) \div b)

\* The largest r in lo..hi with r * r <= n
RECURSIVE ISqrtIn(_, _, _)
ISqrtIn(n, lo, hi) ==
    IF lo >= hi THEN lo
    ELSE LET mid == (lo + hi + 1) \div 2
         IN  IF mid * mid <= n THEN ISqrtIn(n, mid, hi) ELSE ISqrtIn(n, lo, mid - 1)

\* math.Sqrt on a fixed-point value: sqrt(v / Scale) * Scale = sqrt(v * Scale)
FSqrt(v) ==
    IF v = NaN \/ v < 0 THEN NaN
    ELSE IF v = PInf THEN PInf
    ELSE ISqrtIn(v * Scale, 0, 46340)

(***************************************************************************)
(* pkg/parser: transaction types and the Transaction record                *)
(***************************************************************************)
\* The TransactionType constants, each by the name String() gives it
Txn ==
    [Unknown |-> "UNKNOWN",
     MPesaReceived |-> "MPESA_RECEIVED",
     MPesaSent |-> "MPESA_SENT",
     MPesaPaybill |-> "MPESA_PAYBILL",
     MPesaBuyGoods |-> "MPESA_BUYGOODS",
     FulizaLoan |-> "FULIZA_LOAN",
     FulizaRepay |-> "FULIZA_REPAY",
     TKashReceived |-> "TKASH_RECEIVED",
     TKashSent |-> "TKASH_SENT",
     AirtelReceived |-> "AIRTEL_RECEIVED",
     AirtelSent |-> "AIRTEL_SENT",
     HustlerLoan |-> "HUSTLER_LOAN",
     HustlerRepay |-> "HUSTLER_REPAY",
     OkoaReceived |-> "OKOA_RECEIVED",
     OkoaDebt |-> "OKOA_DEBT",
     DigitalLoan |-> "DIGITAL_LOAN",
     DigitalRepay |-> "DIGITAL_REPAY",
     MMFDeposit |-> "MMF_DEPOSIT",
     MMFWithdraw |-> "MMF_WITHDRAW",
     BankDeposit |-> "BANK_DEPOSIT",
     BankWithdraw |-> "BANK_WITHDRAW",
     Gambling |-> "GAMBLING",
     Utility |-> "UTILITY"]

\* Deviation: the transaction starts out with a sender
NewTransactionFrom(log) ==
    [Type |-> Txn.Unknown, RefCode |-> <<>>, Amount |-> 0, Balance |-> 0,
     Recipient |-> <<>>, Sender |-> <<"UNKNOWN">>, Lender |-> <<>>, RawText |-> log]

\* The zero value parseSingleLog starts from.  Names are sequences of
\* words; the empty string is the empty sequence.  Timestamp is never set.
NewTransaction(log) ==
    [Type |-> Txn.Unknown, RefCode |-> <<>>, Amount |-> 0, Balance |-> 0,
     Recipient |-> <<>>, Sender |-> <<>>, Lender |-> <<>>, RawText |-> log]

(***************************************************************************)
(* Tokens                                                                  *)
(***************************************************************************)
W(s) == [k |-> "w", s |-> s]

Num(s) == [k |-> "num", s |-> s]

Amt(cur, txt) == [k |-> "amt", cur |-> cur, txt |-> txt]

Ref(txt) == [k |-> "ref", txt |-> txt]

\* Punctuation written directly after the previous token
P(s) == [k |-> "p", s |-> s]

Digits == {"0", "1", "2", "3", "4", "5", "6", "7", "8", "9"}

DigitVal(c) ==
    CASE c = "0" -> 0 [] c = "1" -> 1 [] c = "2" -> 2 [] c = "3" -> 3
      [] c = "4" -> 4 [] c = "5" -> 5 [] c = "6" -> 6 [] c = "7" -> 7
      [] c = "8" -> 8 [] c = "9" -> 9

\* strings.ToUpper on the currency spellings that occur
UpperCur(cur) ==
    CASE cur \in {"Ksh", "KSH", "ksh", "KSh"} -> "KSH"
      [] cur \in {"KES", "kes", "Kes"} -> "KES"
      [] OTHER -> cur

\* strings.Contains / an unanchored (?i) literal, on one token: the word is
\* the keyword or one of the words that contain it as a proper substring
Has(tok, kw) ==
    /\ tok.k = "w"
    /\ \/ tok.s = kw
       \/ <<kw, tok.s>> \in {<<"MALI", "MALIK">>, <<"BRANCH", "BRANCHES">>,
                              <<"PAID", "REPAID">>, <<"REPAY", "REPAYMENT">>}

IsW(l, i, s) == i \in 1..Len(l) /\ l[i].k = "w" /\ l[i].s = s

IsAnyW(l, i, set) == i \in 1..Len(l) /\ l[i].k = "w" /\ l[i].s \in set

HasAt(l, i, kw) == i \in 1..Len(l) /\ Has(l[i], kw)

\* Length of the longest prefix of txt, read from position i, inside set
RECURSIVE RunLen(_, _, _)
RunLen(txt, i, set) ==
    IF i <= Len(txt) /\ txt[i] \in set THEN 1 + RunLen(txt, i + 1, set) ELSE 0

\* Deviation: the group takes a sign in front of the digits, -?[\d,]+\.?\d*
AmtMatchLenSigned(txt) ==
    LET sign == IF txt # <<>> /\ txt[1] = "-" THEN 1 ELSE 0
        a == RunLen(txt, sign + 1, Digits \cup {","})
        dot == IF a > 0 /\ sign + a + 1 <= Len(txt) /\ txt[sign + a + 1] = "."
               THEN 1 ELSE 0
    IN  IF a = 0 THEN 0 ELSE sign + a + dot + RunLen(txt, sign + a + dot + 1, Digits)

\* Length of the longest prefix of txt matched by [\d,]+\.?\d* (0: no match)
AmtMatchLen(txt) ==
    LET a == RunLen(txt, 1, Digits \cup {","})
        dot == IF a > 0 /\ a + 1 <= Len(txt) /\ txt[a + 1] = "." THEN 1 ELSE 0
    IN  IF a = 0 THEN 0 ELSE a + dot + RunLen(txt, a + dot + 1, Digits)

(***************************************************************************)
(* parseAmount (strings are sequences of one-character strings)            *)
(***************************************************************************)
RECURSIVE TrimLeft(_)
TrimLeft(s) == IF s # <<>> /\ s[1] = " " THEN TrimLeft(Tail(s)) ELSE s

RECURSIVE TrimRight(_)
TrimRight(s) ==
    IF s # <<>> /\ s[Len(s)] = " " THEN TrimRight(SubSeq(s, 1, Len(s) - 1)) ELSE s

TrimSpace(s) == TrimRight(TrimLeft(s))

HasPrefix(s, p) == Len(s) >= Len(p) /\ SubSeq(s, 1, Len(p)) = p

TrimPrefix(s, p) == IF HasPrefix(s, p) THEN SubSeq(s, Len(p) + 1, Len(s)) ELSE s

\* strings.ReplaceAll(s, ",", "")
RemoveCommas(s) == SelectSeq(s, LAMBDA c : c # ",")

RECURSIVE DigitsValue(_, _)
DigitsValue(s, acc) ==
    IF s = <<>> \/ acc > MaxFloat THEN acc
    ELSE DigitsValue(Tail(s), acc * 10 + DigitVal(s[1]))

UpperStr(s) ==
    [i \in 1..Len(s) |->
        CASE s[i] = "a" -> "A" [] s[i] = "n" -> "N" [] s[i] = "i" -> "I"
          [] s[i] = "f" -> "F" [] s[i] = "t" -> "T" [] s[i] = "y" -> "Y"
          [] OTHER -> s[i]]

\* strconv.ParseFloat(s, 64) on signed decimals and the special values it
\* accepts in any letter case; ok = FALSE is a syntax error, or a range error
\* for a decimal past the largest finite value.  A decimal is kept to one
\* fractional digit (the fixed-point unit).
ParseFloat(s) ==
    LET signed == s # <<>> /\ s[1] \in {"+", "-"}
        neg == s # <<>> /\ s[1] = "-"
        body == IF signed THEN Tail(s) ELSE s
        ip == RunLen(body, 1, Digits)
        dot == IF ip + 1 <= Len(body) /\ body[ip + 1] = "." THEN 1 ELSE 0
        fp == RunLen(body, ip + dot + 1, Digits)
        intv == DigitsValue(SubSeq(body, 1, ip), 0)
        frac == IF fp > 0 THEN DigitVal(body[ip + dot + 1]) ELSE 0
        mag == intv * Scale + frac
    IN  IF UpperStr(body) \in {<<"I", "N", "F">>,
                               <<"I", "N", "F", "I", "N", "I", "T", "Y">>}
        THEN [ok |-> TRUE, v |-> IF neg THEN NInf ELSE PInf]
        ELSE IF UpperStr(body) = <<"N", "A", "N">> /\ ~signed
        THEN [ok |-> TRUE, v |-> NaN]
        ELSE IF ip + fp > 0 /\ ip + dot + fp = Len(body)
        THEN IF intv > MaxFloat \div Scale \/ mag > MaxFloat
             THEN [ok |-> FALSE, v |-> IF neg THEN NInf ELSE PInf]
             ELSE [ok |-> TRUE, v |-> IF neg THEN 0 - mag ELSE mag]
        ELSE [ok |-> FALSE, v |-> 0]

parseAmount(s) ==
    IF s = <<>> THEN 0
    ELSE LET s1 == TrimSpace(s)
             s2 == TrimPrefix(s1, <<"K", "s", "h">>)
             s3 == TrimPrefix(s2, <<"k", "s", "h">>)
             s4 == TrimPrefix(s3, <<"K", "E", "S">>)
             s5 == TrimPrefix(s4, <<"k", "e", "s">>)
             s6 == RemoveCommas(TrimSpace(s5))
             r == ParseFloat(s6)
         IN  IF ~r.ok THEN 0 ELSE r.v

(***************************************************************************)
(* pkg/parser/patterns.go: the pattern table, on token sequences           *)
(***************************************************************************)
MaxOf(S) == CHOOSE x \in S : \A y \in S : y <= x

MinOf(S) == CHOOSE x \in S : \A y \in S : x <= y

Pos(l) == 1..Len(l)

IsP(l, i, s) == i \in 1..Len(l) /\ l[i].k = "p" /\ l[i].s = s

WordsAt(l, i, ws) == \A k \in 1..Len(ws) : IsW(l, i + k - 1, ws[k])

\* (?i)Ksh\s*(?P<amt>...) or (?i)(?:Ksh|KES)\s*(?P<amt>...) at token i, the
\* pattern ending with the group
AmtPre(l, i, curs) ==
    /\ i \in 1..Len(l)
    /\ l[i].k = "amt"
    /\ UpperCur(l[i].cur) \in curs
    /\ AmtMatchLen(l[i].txt) > 0

\* the same followed by \s+: the group has to reach the end of the token
AmtFull(l, i, curs) == AmtPre(l, i, curs) /\ AmtMatchLen(l[i].txt) = Len(l[i].txt)

KshOnly == {"KSH"}

KshKes == {"KSH", "KES"}

AmountAt(l, i) == parseAmount(SubSeq(l[i].txt, 1, AmtMatchLen(l[i].txt)))

\* A word [A-Z\s]+ runs through: any but those with a hyphen, an ampersand or
\* a digit in them
Alpha(l, i) ==
    /\ i \in 1..Len(l)
    /\ l[i].k = "w"
    /\ l[i].s \notin {"M-SHWARI", "M-PESA", "T-KASH", "KCB-MPESA", "CO-OP", "I&M",
                     "1XBET", "22BET"}

AlphaNum(l, i) == Alpha(l, i) \/ (i \in 1..Len(l) /\ l[i].k = "num")

RECURSIVE AlphaRun(_, _)
AlphaRun(l, i) == IF Alpha(l, i) THEN 1 + AlphaRun(l, i + 1) ELSE 0

RECURSIVE AlphaNumRun(_, _)
AlphaNumRun(l, i) == IF AlphaNum(l, i) THEN 1 + AlphaNumRun(l, i + 1) ELSE 0

TokText(l, a, b) == [k \in 1..(b - a + 1) |-> l[a + k - 1].s]

\* (?P<sender>[A-Z\s]+) from token i (greedy)
NameGroup(l, i) == TokText(l, i, i + AlphaRun(l, i) - 1)

\* (?P<sender>[A-Z\s]+\d*) from token i
NameDigitsGroup(l, i) ==
    LET e == i + AlphaRun(l, i) - 1
    IN  IF e + 1 <= Len(l) /\ l[e + 1].k = "num"
        THEN TokText(l, i, e + 1) ELSE TokText(l, i, e)

\* Leftmost UA[A-Z0-9]{8,10} inside a reference code that reaches its end
UAStarts(txt) ==
    {p \in 1..Len(txt) : /\ p + 1 <= Len(txt)
                         /\ txt[p] = "U" /\ txt[p + 1] = "A"
                         /\ Len(txt) - (p + 1) \in 8..10}

UAGroup(txt) == SubSeq(txt, MinOf(UAStarts(txt)), Len(txt))

\* (?P<refcode>UA[A-Z0-9]{8,10})\s+[Cc]onfirmed\.?\s+ at token i: the
\* index of the token after it, 0 when it does not match
MPesaHead(l, i) ==
    IF i \in 1..Len(l) /\ l[i].k = "ref" /\ UAStarts(l[i].txt) # {}
       /\ IsW(l, i + 1, "CONFIRMED")
    THEN IF IsP(l, i + 2, ".") THEN i + 3 ELSE i + 2
    ELSE 0

NoMatch == [ok |-> FALSE]

\* Every matcher returns [ok |-> FALSE] or [ok |-> TRUE, at |-> token
\* index of the amount, ...named groups]
mpesaReceivedPattern(l) ==
    LET S == {i \in Pos(l) :
                LET h == MPesaHead(l, i)
                IN  /\ h # 0
                    /\ WordsAt(l, h, <<"YOU", "HAVE", "RECEIVED">>)
                    /\ AmtFull(l, h + 3, KshOnly)
                    /\ IsW(l, h + 4, "FROM")
                    /\ Alpha(l, h + 5)}
    IN  IF S = {} THEN NoMatch
        ELSE LET i == MinOf(S)
                 h == MPesaHead(l, i)
             IN  [ok |-> TRUE, refcode |-> UAGroup(l[i].txt), at |-> h + 3,
                  sender |-> NameDigitsGroup(l, h + 5)]

mpesaSentPattern(l) ==
    LET S == {i \in Pos(l) :
                LET h == MPesaHead(l, i)
                IN  /\ h # 0
                    /\ AmtFull(l, h, KshOnly)
                    /\ WordsAt(l, h + 1, <<"SENT", "TO">>)
                    /\ Alpha(l, h + 3)}
    IN  IF S = {} THEN NoMatch
        ELSE LET i == MinOf(S)
                 h == MPesaHead(l, i)
             IN  [ok |-> TRUE, refcode |-> UAGroup(l[i].txt), at |-> h,
                  recipient |-> NameDigitsGroup(l, h + 3)]

\* ... paid to (?P<account>[A-Z0-9\s]+)
mpesaPaybillPattern(l) ==
    LET S == {i \in Pos(l) :
                LET h == MPesaHead(l, i)
                IN  /\ h # 0
                    /\ AmtFull(l, h, KshOnly)
                    /\ WordsAt(l, h + 1, <<"PAID", "TO">>)
                    /\ AlphaNum(l, h + 3)}
    IN  IF S = {} THEN NoMatch
        ELSE LET i == MinOf(S)
                 h == MPesaHead(l, i)
             IN  [ok |-> TRUE, refcode |-> UAGroup(l[i].txt), at |-> h,
                  account |-> TokText(l, h + 3, h + 2 + AlphaNumRun(l, h + 3))]

\* ... paid to (?P<merchant>[A-Z\s]+)\s*[Tt]ill: the merchant runs up to
\* the last "Till" of the run of words
mpesaBuyGoodsPattern(l) ==
    LET Tills(h) == {t \in Pos(l) : /\ t > h + 3
                                    /\ t <= h + 3 + AlphaRun(l, h + 3)
                                    /\ HasAt(l, t, "TILL")
                                    /\ \A k \in (h + 3)..(t - 1) : Alpha(l, k)}
        S == {i \in Pos(l) :
                LET h == MPesaHead(l, i)
                IN  /\ h # 0
                    /\ AmtFull(l, h, KshOnly)
                    /\ WordsAt(l, h + 1, <<"PAID", "TO">>)
                    /\ Tills(h) # {}}
    IN  IF S = {} THEN NoMatch
        ELSE LET i == MinOf(S)
                 h == MPesaHead(l, i)
             IN  [ok |-> TRUE, refcode |-> UAGroup(l[i].txt), at |-> h,
                  merchant |-> TokText(l, h + 3, MaxOf(Tills(h)) - 1)]

\* kw.*verb\s+<amount>: the token index of the last verb, after the first
\* keyword end, that an amount follows (0: no match).  optIs allows "is"
\* between verb and amount.
VerbAmtAfter(l, ends, verbs, curs, optIs) ==
    LET AmtIx(j) == IF optIs /\ IsW(l, j + 1, "IS") THEN j + 2 ELSE j + 1
        J == {j \in Pos(l) : /\ \E e \in ends : e < j
                             /\ IsAnyW(l, j, verbs)
                             /\ AmtPre(l, AmtIx(j), curs)}
    IN  IF J = {} THEN NoMatch ELSE [ok |-> TRUE, at |-> AmtIx(MaxOf(J))]

\* End positions of an unanchored one- or two-word literal
KwEnds(l, ws) ==
    {i + Len(ws) - 1 : i \in {i \in Pos(l) :
        HasAt(l, i, ws[1]) /\ \A k \in 2..Len(ws) : IsW(l, i + k - 1, ws[k])}}

fulizaLoanPattern(l) ==
    LET J == {j \in Pos(l) : /\ \E e \in KwEnds(l, <<"FULIZA">>) : e < j
                             /\ WordsAt(l, j, <<"YOU", "HAVE", "BORROWED">>)
                             /\ AmtPre(l, j + 3, KshOnly)}
    IN  IF J = {} THEN NoMatch ELSE [ok |-> TRUE, at |-> MaxOf(J) + 3]

fulizaRepayPattern(l) ==
    LET J == {j \in Pos(l) : /\ \E e \in KwEnds(l, <<"FULIZA">>) : e < j
                             /\ WordsAt(l, j, <<"YOU", "HAVE", "REPAID">>)
                             /\ AmtPre(l, j + 3, KshOnly)}
    IN  IF J = {} THEN NoMatch ELSE [ok |-> TRUE, at |-> MaxOf(J) + 3]

tkashReceivedPattern(l) ==
    LET J == {j \in Pos(l) : /\ \E e \in KwEnds(l, <<"T-KASH">>) : e < j
                             /\ WordsAt(l, j, <<"YOU", "HAVE", "RECEIVED">>)
                             /\ AmtFull(l, j + 3, KshOnly)
                             /\ IsW(l, j + 4, "FROM")
                             /\ Alpha(l, j + 5)}
    IN  IF J = {} THEN NoMatch
        ELSE [ok |-> TRUE, at |-> MaxOf(J) + 3, sender |-> NameGroup(l, MaxOf(J) + 5)]

tkashSentPattern(l) ==
    LET J == {j \in Pos(l) : /\ \E e \in KwEnds(l, <<"T-KASH">>) : e < j
                             /\ AmtFull(l, j, KshOnly)
                             /\ WordsAt(l, j + 1, <<"SENT", "TO">>)
                             /\ Alpha(l, j + 3)}
    IN  IF J = {} THEN NoMatch
        ELSE [ok |-> TRUE, at |-> MaxOf(J), recipient |-> NameGroup(l, MaxOf(J) + 3)]

\* Transaction\s+ID[:\s]*(?P<refcode>AM[A-Z0-9]+): the token index of the
\* reference code of the leftmost match, 0 when there is none
AirtelHead(l) ==
    LET RefIx(i) == IF IsP(l, i + 2, ":") THEN i + 3 ELSE i + 2
        S == {i \in Pos(l) :
                /\ HasAt(l, i, "TRANSACTION") /\ IsW(l, i + 1, "ID")
                /\ RefIx(i) <= Len(l) /\ l[RefIx(i)].k = "ref"
                /\ HasPrefix(l[RefIx(i)].txt, <<"A", "M">>)
                /\ Len(l[RefIx(i)].txt) >= 3}
    IN  IF S = {} THEN 0 ELSE RefIx(MinOf(S))

airtelReceivedPattern(l) ==
    LET r == AirtelHead(l)
        J == {j \in Pos(l) : /\ r # 0 /\ r < j
                             /\ WordsAt(l, j, <<"YOU", "HAVE", "RECEIVED">>)
                             /\ AmtFull(l, j + 3, KshKes)
                             /\ IsW(l, j + 4, "FROM")
                             /\ Alpha(l, j + 5)}
    IN  IF J = {} THEN NoMatch
        ELSE [ok |-> TRUE, refcode |-> l[r].txt, at |-> MaxOf(J) + 3,
              sender |-> NameGroup(l, MaxOf(J) + 5)]

airtelSentPattern(l) ==
    LET r == AirtelHead(l)
        J == {j \in Pos(l) : /\ r # 0 /\ r < j
                             /\ AmtFull(l, j, KshKes)
                             /\ WordsAt(l, j + 1, <<"SENT", "TO">>)
                             /\ Alpha(l, j + 3)}
    IN  IF J = {} THEN NoMatch
        ELSE [ok |-> TRUE, refcode |-> l[r].txt, at |-> MaxOf(J),
              recipient |-> NameGroup(l, MaxOf(J) + 3)]

\* (?i)Airtel\s*Money
airtelGenericPattern(l) == KwEnds(l, <<"AIRTEL", "MONEY">>) # {}

hustlerLoanPattern(l) ==
    VerbAmtAfter(l, KwEnds(l, <<"HUSTLER", "FUND">>), {"DISBURSED", "RECEIVED"},
                 KshKes, FALSE)

hustlerRepayPattern(l) ==
    VerbAmtAfter(l, KwEnds(l, <<"HUSTLER", "FUND">>), {"REPAID"}, KshKes, FALSE)

hustlerBalancePattern(l) ==
    VerbAmtAfter(l, KwEnds(l, <<"HUSTLER", "FUND">>), {"BALANCE", "LIMIT"},
                 KshKes, TRUE)

\* (?:received|got)\s+(?:Ksh|KES)\s*(?P<amt>...)\s+Okoa\s+Jahazi
okoaReceivedPattern(l) ==
    LET S == {i \in Pos(l) : /\ IsAnyW(l, i, {"RECEIVED", "GOT"})
                             /\ AmtFull(l, i + 1, KshKes)
                             /\ WordsAt(l, i + 2, <<"OKOA", "JAHAZI">>)}
    IN  IF S = {} THEN NoMatch ELSE [ok |-> TRUE, at |-> MinOf(S) + 1]

\* Okoa\s+(?:Jahazi\s+)?debt\s+(?:is\s+)?(?:Ksh|KES)\s*(?P<amt>...)
okoaDebtPattern(l) ==
    LET DebtIx(i) == IF IsW(l, i + 1, "JAHAZI") THEN i + 2 ELSE i + 1
        AmtIx(i) == IF IsW(l, DebtIx(i) + 1, "IS") THEN DebtIx(i) + 2
                    ELSE DebtIx(i) + 1
        S == {i \in Pos(l) : /\ HasAt(l, i, "OKOA")
                             /\ IsW(l, DebtIx(i), "DEBT")
                             /\ AmtPre(l, AmtIx(i), KshKes)}
    IN  IF S = {} THEN NoMatch ELSE [ok |-> TRUE, at |-> AmtIx(MinOf(S))]

okoaRepayPattern(l) ==
    VerbAmtAfter(l, KwEnds(l, <<"OKOA", "JAHAZI">>), {"REPAID"}, KshKes, FALSE)

LenderNames5 == {"TALA", "BRANCH", "ZENKA", "ZASH", "OKOLEA"}

LenderNames10 ==
    LenderNames5 \cup {"KCB-MPESA", "FULIZA", "TIMIZA", "BERRY", "KASHWAY"}

\* The alternative of names that token i contains (the group's text)
NameIn(l, i, names) == CHOOSE n \in names : HasAt(l, i, n)

HasAnyAt(l, i, names) == \E n \in names : HasAt(l, i, n)

\* (?i)(Tala|Branch|...): the leftmost match's text, <<>> when none
digitalLenderPattern(l) ==
    LET S == {i \in Pos(l) : HasAnyAt(l, i, LenderNames10)}
    IN  IF S = {} THEN <<>> ELSE <<NameIn(l, MinOf(S), LenderNames10)>>

\* (?:received|disbursed)\s+<amount>\s+(?:from\s+)?(?P<lender>...)
loanDisbursementPattern(l) ==
    LET LIx(i) == IF IsW(l, i + 2, "FROM") THEN i + 3 ELSE i + 2
        S == {i \in Pos(l) : /\ IsAnyW(l, i, {"RECEIVED", "DISBURSED"})
                             /\ AmtFull(l, i + 1, KshKes)
                             /\ HasAnyAt(l, LIx(i), LenderNames5)}
    IN  IF S = {} THEN NoMatch
        ELSE [ok |-> TRUE, at |-> MinOf(S) + 1,
              lender |-> <<NameIn(l, LIx(MinOf(S)), LenderNames5)>>]

\* <amount>\s+(?:paid|received\s+by)\s+(?P<lender>...)
loanRepaymentPattern(l) ==
    LET LIx(i) == IF IsW(l, i + 1, "PAID") THEN i + 2 ELSE i + 3
        S == {i \in Pos(l) : /\ AmtFull(l, i, KshKes)
                             /\ \/ IsW(l, i + 1, "PAID")
                                \/ WordsAt(l, i + 1, <<"RECEIVED", "BY">>)
                             /\ HasAnyAt(l, LIx(i), LenderNames5)}
    IN  IF S = {} THEN NoMatch
        ELSE [ok |-> TRUE, at |-> MinOf(S),
              lender |-> <<NameIn(l, LIx(MinOf(S)), LenderNames5)>>]

\* KCB\s*M-?PESA
KcbMpesaEnds(l) ==
    KwEnds(l, <<"KCB", "M-PESA">>) \cup KwEnds(l, <<"KCB", "MPESA">>)

mshwariDepositPattern(l) ==
    VerbAmtAfter(l, KwEnds(l, <<"M-SHWARI">>),
                 {"DEPOSITED", "SAVED", "TRANSFERRED"}, KshKes, FALSE)

mshwariWithdrawPattern(l) ==
    VerbAmtAfter(l, KwEnds(l, <<"M-SHWARI">>), {"WITHDRAWN", "TRANSFERRED"},
                 KshKes, FALSE)

kcbMpesaSavePattern(l) ==
    VerbAmtAfter(l, KcbMpesaEnds(l), {"DEPOSITED", "SAVED", "TRANSFERRED"},
                 KshKes, FALSE)

maliSavePattern(l) ==
    VerbAmtAfter(l, KwEnds(l, <<"MALI">>), {"DEPOSITED", "INVESTED", "SAVED"},
                 KshKes, FALSE)

stawiSavePattern(l) ==
    VerbAmtAfter(l, KwEnds(l, <<"STAWI">>), {"DEPOSITED", "SAVED"}, KshKes, FALSE)

\* (?i)(M-Shwari|KCB\s*M-?PESA|Mali|Stawi|Lock\s+Savings)
mmfPattern(l) ==
    \/ KwEnds(l, <<"M-SHWARI">>) # {}
    \/ KcbMpesaEnds(l) # {}
    \/ KwEnds(l, <<"MALI">>) # {}
    \/ KwEnds(l, <<"STAWI">>) # {}
    \/ KwEnds(l, <<"LOCK", "SAVINGS">>) # {}

BankNames6 == {"KCB", "EQUITY", "CO-OP", "COOP", "NCBA", "STANBIC", "ABSA"}

\* (?i)(KCB|Equity|Co-?op(?:erative)?|NCBA|Stanbic|Absa|DTB|I&M|
\*      Family\s+Bank|Bank\s+of\s+Africa)
bankTransferPattern(l) ==
    \/ \E i \in Pos(l) :
          HasAnyAt(l, i, BankNames6 \cup {"COOPERATIVE", "CO-OPERATIVE", "DTB", "I&M"})
    \/ KwEnds(l, <<"FAMILY", "BANK">>) # {}
    \/ KwEnds(l, <<"BANK", "OF", "AFRICA">>) # {}

\* (?:deposited|transferred|sent)\s+<amount>\s+(?:to\s+)?(?P<bank>...)
bankDepositPattern(l) ==
    LET BIx(i) == IF IsW(l, i + 2, "TO") THEN i + 3 ELSE i + 2
        S == {i \in Pos(l) : /\ IsAnyW(l, i, {"DEPOSITED", "TRANSFERRED", "SENT"})
                             /\ AmtFull(l, i + 1, KshKes)
                             /\ HasAnyAt(l, BIx(i), BankNames6)}
    IN  IF S = {} THEN NoMatch
        ELSE [ok |-> TRUE, at |-> MinOf(S) + 1,
              bank |-> <<NameIn(l, BIx(MinOf(S)), BankNames6)>>]

\* (?:withdrawn|received)\s+<amount>\s+(?:from\s+)?(?P<bank>...)
bankWithdrawPattern(l) ==
    LET BIx(i) == IF IsW(l, i + 2, "FROM") THEN i + 3 ELSE i + 2
        S == {i \in Pos(l) : /\ IsAnyW(l, i, {"WITHDRAWN", "RECEIVED"})
                             /\ AmtFull(l, i + 1, KshKes)
                             /\ HasAnyAt(l, BIx(i), BankNames6)}
    IN  IF S = {} THEN NoMatch
        ELSE [ok |-> TRUE, at |-> MinOf(S) + 1,
              bank |-> <<NameIn(l, BIx(MinOf(S)), BankNames6)>>]

gamblingPattern(l) ==
    \E i \in Pos(l) :
        HasAnyAt(l, i, {"BETIKA", "SPORTPESA", "MOZZART", "ODIBETS", "BETWAY", "1XBET",
                        "BETIN", "DAFABET", "22BET", "HELABET"})

\* (?:Ksh|KES)\s*(?P<amt>[\d,]+\.?\d*), compiled without (?i): the leftmost
\* amount whose prefix is spelled exactly Ksh or KES
amountPattern(l) ==
    LET S == {i \in Pos(l) : /\ l[i].k = "amt"
                             /\ l[i].cur \in {"Ksh", "KES"}
                             /\ AmtMatchLen(l[i].txt) > 0}
    IN  IF S = {} THEN NoMatch ELSE [ok |-> TRUE, at |-> MinOf(S)]

(***************************************************************************)
(* pkg/parser/parser.go: the sub-matchers and parseSingleLog               *)
(* Each returns [err |-> a pattern matched or not, txn |-> Transaction].   *)
(***************************************************************************)
Parsed(txn) == [err |-> FALSE, txn |-> txn]

Unparsed(txn) == [err |-> TRUE, txn |-> txn]

\* strings.Contains(logUpper, kw) for a one-word keyword
Contains(l, kw) == \E i \in Pos(l) : HasAt(l, i, kw)

\* strings.Contains(logUpper, "AM1"): inside a reference code
ContainsAM1(l) ==
    \E i \in Pos(l) :
        /\ l[i].k = "ref"
        /\ \E q \in 1..(Len(l[i].txt) - 2) :
              SubSeq(l[i].txt, q, q + 2) = <<"A", "M", "1">>

parseAirtel(log, txn) ==
    LET r == airtelReceivedPattern(log)
        st == airtelSentPattern(log)
        a == amountPattern(log)
    IN  IF r.ok
        THEN Parsed([txn EXCEPT !.Type = Txn.AirtelReceived, !.RefCode = r.refcode,
                                !.Amount = AmountAt(log, r.at), !.Sender = r.sender])
        ELSE IF st.ok
        THEN Parsed([txn EXCEPT !.Type = Txn.AirtelSent, !.RefCode = st.refcode,
                                !.Amount = AmountAt(log, st.at),
                                !.Recipient = st.recipient])
        ELSE IF airtelGenericPattern(log) /\ a.ok
        THEN Parsed([txn EXCEPT !.Type = Txn.AirtelReceived,
                                !.Amount = AmountAt(log, a.at)])
        ELSE Unparsed(txn)

HustlerFund == <<"HUSTLER", "FUND">>

\* Deviation: a Hustler line that no Hustler pattern matches is handed on
\* to the M-Pesa received pattern
parseHustlerThenMPesa(log, txn) ==
    LET ln == hustlerLoanPattern(log)
        rp == hustlerRepayPattern(log)
        bl == hustlerBalancePattern(log)
        rc == mpesaReceivedPattern(log)
    IN  IF ln.ok
        THEN Parsed([txn EXCEPT !.Type = Txn.HustlerLoan,
                                !.Amount = AmountAt(log, ln.at),
                                !.Lender = <<"HUSTLER", "FUND">>])
        ELSE IF rp.ok
        THEN Parsed([txn EXCEPT !.Type = Txn.HustlerRepay,
                                !.Amount = AmountAt(log, rp.at),
                                !.Lender = <<"HUSTLER", "FUND">>])
        ELSE IF bl.ok
        THEN Parsed([txn EXCEPT !.Type = Txn.HustlerLoan,
                                !.Balance = AmountAt(log, bl.at),
                                !.Lender = <<"HUSTLER", "FUND">>])
        ELSE IF rc.ok
        THEN Parsed([txn EXCEPT !.Type = Txn.MPesaReceived, !.RefCode = rc.refcode,
                                !.Amount = AmountAt(log, rc.at), !.Sender = rc.sender])
        ELSE Unparsed(txn)

parseHustler(log, txn) ==
    LET ln == hustlerLoanPattern(log)
        rp == hustlerRepayPattern(log)
        bl == hustlerBalancePattern(log)
    IN  IF ln.ok
        THEN Parsed([txn EXCEPT !.Type = Txn.HustlerLoan,
                                !.Amount = AmountAt(log, ln.at),
                                !.Lender = HustlerFund])
        ELSE IF rp.ok
        THEN Parsed([txn EXCEPT !.Type = Txn.HustlerRepay,
                                !.Amount = AmountAt(log, rp.at),
                                !.Lender = HustlerFund])
        ELSE IF bl.ok
        THEN Parsed([txn EXCEPT !.Type = Txn.HustlerLoan,
                                !.Balance = AmountAt(log, bl.at),
                                !.Lender = HustlerFund])
        ELSE Unparsed(txn)

parseOkoa(log, txn) ==
    LET rc == okoaReceivedPattern(log)
        db == okoaDebtPattern(log)
        rp == okoaRepayPattern(log)
    IN  IF rc.ok
        THEN Parsed([txn EXCEPT !.Type = Txn.OkoaReceived,
                                !.Amount = AmountAt(log, rc.at)])
        ELSE IF db.ok
        THEN Parsed([txn EXCEPT !.Type = Txn.OkoaDebt,
                                !.Balance = AmountAt(log, db.at)])
        ELSE IF rp.ok
        THEN Parsed([txn EXCEPT !.Type = Txn.OkoaDebt,
                                !.Amount = AmountAt(log, rp.at)])
        ELSE Unparsed(txn)

parseMMF(log, txn) ==
    LET md == mshwariDepositPattern(log)
        mw == mshwariWithdrawPattern(log)
        kc == kcbMpesaSavePattern(log)
        ma == maliSavePattern(log)
        sw == stawiSavePattern(log)
        a == amountPattern(log)
    IN  IF md.ok
        THEN Parsed([txn EXCEPT !.Type = Txn.MMFDeposit,
                                !.Amount = AmountAt(log, md.at),
                                !.Recipient = <<"M-Shwari">>])
        ELSE IF mw.ok
        THEN Parsed([txn EXCEPT !.Type = Txn.MMFWithdraw,
                                !.Amount = AmountAt(log, mw.at),
                                !.Sender = <<"M-Shwari">>])
        ELSE IF kc.ok
        THEN Parsed([txn EXCEPT !.Type = Txn.MMFDeposit,
                                !.Amount = AmountAt(log, kc.at),
                                !.Recipient = <<"KCB M-Pesa">>])
        ELSE IF ma.ok
        THEN Parsed([txn EXCEPT !.Type = Txn.MMFDeposit,
                                !.Amount = AmountAt(log, ma.at),
                                !.Recipient = <<"Mali">>])
        ELSE IF sw.ok
        THEN Parsed([txn EXCEPT !.Type = Txn.MMFDeposit,
                                !.Amount = AmountAt(log, sw.at),
                                !.Recipient = <<"Stawi">>])
        ELSE IF mmfPattern(log) /\ a.ok
        THEN Parsed([txn EXCEPT !.Type = Txn.MMFDeposit,
                                !.Amount = AmountAt(log, a.at)])
        ELSE Unparsed(txn)

parseDigitalLender(log, txn) ==
    LET ds == loanDisbursementPattern(log)
        rp == loanRepaymentPattern(log)
        a == amountPattern(log)
        ty == IF Contains(log, "REPAY") \/ Contains(log, "PAID")
              THEN Txn.DigitalRepay ELSE Txn.DigitalLoan
    IN  IF ds.ok
        THEN Parsed([txn EXCEPT !.Type = Txn.DigitalLoan,
                                !.Amount = AmountAt(log, ds.at),
                                !.Lender = ds.lender])
        ELSE IF rp.ok
        THEN Parsed([txn EXCEPT !.Type = Txn.DigitalRepay,
                                !.Amount = AmountAt(log, rp.at),
                                !.Lender = rp.lender])
        ELSE IF digitalLenderPattern(log) # <<>> /\ a.ok
        THEN Parsed([txn EXCEPT !.Type = ty,
                                !.Amount = AmountAt(log, a.at),
                                !.Lender = digitalLenderPattern(log)])
        ELSE Unparsed(txn)

parseTKash(log, txn) ==
    LET r == tkashReceivedPattern(log)
        st == tkashSentPattern(log)
    IN  IF r.ok
        THEN Parsed([txn EXCEPT !.Type = Txn.TKashReceived,
                                !.Amount = AmountAt(log, r.at), !.Sender = r.sender])
        ELSE IF st.ok
        THEN Parsed([txn EXCEPT !.Type = Txn.TKashSent,
                                !.Amount = AmountAt(log, st.at),
                                !.Recipient = st.recipient])
        ELSE Unparsed(txn)

parseFuliza(log, txn) ==
    LET ln == fulizaLoanPattern(log)
        rp == fulizaRepayPattern(log)
    IN  IF ln.ok
        THEN Parsed([txn EXCEPT !.Type = Txn.FulizaLoan,
                                !.Amount = AmountAt(log, ln.at)])
        ELSE IF rp.ok
        THEN Parsed([txn EXCEPT !.Type = Txn.FulizaRepay,
                                !.Amount = AmountAt(log, rp.at)])
        ELSE Unparsed(txn)

\* Deviation: the default matcher looks for a betting platform before it
\* tries the M-Pesa patterns
parseGamblingFirst(log, txn) ==
    LET rc == mpesaReceivedPattern(log)
        st == mpesaSentPattern(log)
        pb == mpesaPaybillPattern(log)
        bg == mpesaBuyGoodsPattern(log)
        a == amountPattern(log)
        bd == bankDepositPattern(log)
        bw == bankWithdrawPattern(log)
    IN  IF gamblingPattern(log)
        THEN Parsed([txn EXCEPT !.Type = Txn.Gambling,
                                !.Amount = IF a.ok THEN AmountAt(log, a.at) ELSE 0])
        ELSE IF rc.ok
        THEN Parsed([txn EXCEPT !.Type = Txn.MPesaReceived, !.RefCode = rc.refcode,
                                !.Amount = AmountAt(log, rc.at), !.Sender = rc.sender])
        ELSE IF st.ok
        THEN Parsed([txn EXCEPT !.Type = Txn.MPesaSent, !.RefCode = st.refcode,
                                !.Amount = AmountAt(log, st.at),
                                !.Recipient = st.recipient])
        ELSE IF pb.ok
        THEN Parsed([txn EXCEPT !.Type = Txn.MPesaPaybill, !.RefCode = pb.refcode,
                                !.Amount = AmountAt(log, pb.at),
                                !.Recipient = pb.account])
        ELSE IF bg.ok
        THEN Parsed([txn EXCEPT !.Type = Txn.MPesaBuyGoods, !.RefCode = bg.refcode,
                                !.Amount = AmountAt(log, bg.at),
                                !.Recipient = bg.merchant])
        ELSE IF bankTransferPattern(log) /\ bd.ok
        THEN Parsed([txn EXCEPT !.Type = Txn.BankDeposit,
                                !.Amount = AmountAt(log, bd.at), !.Recipient = bd.bank])
        ELSE IF bankTransferPattern(log) /\ bw.ok
        THEN Parsed([txn EXCEPT !.Type = Txn.BankWithdraw,
                                !.Amount = AmountAt(log, bw.at), !.Sender = bw.bank])
        ELSE Unparsed(txn)

parseMPesaAndOthers(log, txn) ==
    LET rc == mpesaReceivedPattern(log)
        st == mpesaSentPattern(log)
        pb == mpesaPaybillPattern(log)
        bg == mpesaBuyGoodsPattern(log)
        a == amountPattern(log)
        bd == bankDepositPattern(log)
        bw == bankWithdrawPattern(log)
    IN  IF rc.ok
        THEN Parsed([txn EXCEPT !.Type = Txn.MPesaReceived, !.RefCode = rc.refcode,
                                !.Amount = AmountAt(log, rc.at), !.Sender = rc.sender])
        ELSE IF st.ok
        THEN Parsed([txn EXCEPT !.Type = Txn.MPesaSent, !.RefCode = st.refcode,
                                !.Amount = AmountAt(log, st.at),
                                !.Recipient = st.recipient])
        ELSE IF pb.ok
        THEN Parsed([txn EXCEPT !.Type = Txn.MPesaPaybill, !.RefCode = pb.refcode,
                                !.Amount = AmountAt(log, pb.at),
                                !.Recipient = pb.account])
        ELSE IF bg.ok
        THEN Parsed([txn EXCEPT !.Type = Txn.MPesaBuyGoods, !.RefCode = bg.refcode,
                                !.Amount = AmountAt(log, bg.at),
                                !.Recipient = bg.merchant])
        ELSE IF gamblingPattern(log)
        THEN Parsed([txn EXCEPT !.Type = Txn.Gambling,
                                !.Amount = IF a.ok THEN AmountAt(log, a.at) ELSE 0])
        ELSE IF bankTransferPattern(log) /\ bd.ok
        THEN Parsed([txn EXCEPT !.Type = Txn.BankDeposit,
                                !.Amount = AmountAt(log, bd.at), !.Recipient = bd.bank])
        ELSE IF bankTransferPattern(log) /\ bw.ok
        THEN Parsed([txn EXCEPT !.Type = Txn.BankWithdraw,
                                !.Amount = AmountAt(log, bw.at), !.Sender = bw.bank])
        ELSE Unparsed(txn)

parseSingleLog(log) ==
    LET txn == NewTransaction(log)
    IN  IF Contains(log, "AIRTEL") \/ ContainsAM1(log) THEN parseAirtel(log, txn)
        ELSE IF Contains(log, "HUSTLER") THEN parseHustler(log, txn)
        ELSE IF Contains(log, "OKOA") THEN parseOkoa(log, txn)
        ELSE IF \/ Contains(log, "M-SHWARI") \/ Contains(log, "MALI")
                \/ Contains(log, "STAWI") \/ KwEnds(log, <<"KCB", "M-PESA">>) # {}
        THEN parseMMF(log, txn)
        ELSE IF \/ Contains(log, "TALA") \/ Contains(log, "BRANCH")
                \/ Contains(log, "ZENKA") \/ Contains(log, "ZASH")
                \/ Contains(log, "OKOLEA")
        THEN parseDigitalLender(log, txn)
        ELSE IF Contains(log, "T-KASH") THEN parseTKash(log, txn)
        ELSE IF Contains(log, "FULIZA") THEN parseFuliza(log, txn)
        ELSE parseMPesaAndOthers(log, txn)

(***************************************************************************)
(* The SMS lines that batches are drawn from (the lines of the parser      *)
(* tests and of RUNNING.md, amounts kept to at most 1,500, and one line    *)
(* with an amount near the largest finite value)                           *)
(***************************************************************************)
Catalogue ==
    <<
      \* 1: UA1234ABCD Confirmed. You have received Ksh1,500.00 from JOHN DOE 0712345678
      <<Ref(<<"U", "A", "1", "2", "3", "4", "A", "B", "C", "D">>),
        W("CONFIRMED"), P("."), W("YOU"), W("HAVE"), W("RECEIVED"),
        Amt("Ksh", <<"1", ",", "5", "0", "0", ".", "0", "0">>),
        W("FROM"), W("JOHN"), W("DOE"), Num("0712345678")>>,
      \* 2: UA5678EFGHIJ Confirmed. Ksh500.00 sent to JANE DOE 0798765432
      <<Ref(<<"U", "A", "5", "6", "7", "8", "E", "F", "G", "H", "I",
        "J">>), W("CONFIRMED"), P("."), Amt("Ksh", <<"5", "0", "0",
        ".", "0", "0">>), W("SENT"), W("TO"), W("JANE"), W("DOE"),
        Num("0798765432")>>,
      \* 3: UA9999XYZABC Confirmed. Ksh1,000.00 paid to KPLC. Account Number 12345
      <<Ref(<<"U", "A", "9", "9", "9", "9", "X", "Y", "Z", "A", "B",
        "C">>), W("CONFIRMED"), P("."), Amt("Ksh", <<"1", ",", "0",
        "0", "0", ".", "0", "0">>), W("PAID"), W("TO"), W("KPLC"),
        P("."), W("ACCOUNT"), W("NUMBER"), Num("12345")>>,
      \* 4: UA1234ABCD Confirmed. Ksh200.00 paid to SUPERMARKET Till Number 123456
      <<Ref(<<"U", "A", "1", "2", "3", "4", "A", "B", "C", "D">>),
        W("CONFIRMED"), P("."), Amt("Ksh", <<"2", "0", "0", ".", "0",
        "0">>), W("PAID"), W("TO"), W("SUPERMARKET"), W("TILL"),
        W("NUMBER"), Num("123456")>>,
      \* 5: QKJ3XPYC5T Confirmed. You have received Ksh1,500.00 from SARAH JANE on 25/1/26.
      <<Ref(<<"Q", "K", "J", "3", "X", "P", "Y", "C", "5", "T">>),
        W("CONFIRMED"), P("."), W("YOU"), W("HAVE"), W("RECEIVED"),
        Amt("Ksh", <<"1", ",", "5", "0", "0", ".", "0", "0">>),
        W("FROM"), W("SARAH"), W("JANE"), W("ON"), Num("25/1/26"),
        P(".")>>,
      \* 6: UA1234ABCD Confirmed. You have received Ksh100.00 from MALIK
      <<Ref(<<"U", "A", "1", "2", "3", "4", "A", "B", "C", "D">>),
        W("CONFIRMED"), P("."), W("YOU"), W("HAVE"), W("RECEIVED"),
        Amt("Ksh", <<"1", "0", "0", ".", "0", "0">>), W("FROM"),
        W("MALIK")>>,
      \* 7: Fuliza M-PESA. You have borrowed Ksh200.00
      <<W("FULIZA"), W("M-PESA"), P("."), W("YOU"), W("HAVE"),
        W("BORROWED"), Amt("Ksh", <<"2", "0", "0", ".", "0", "0">>)>>,
      \* 8: Fuliza M-PESA. You have repaid Ksh500.00
      <<W("FULIZA"), W("M-PESA"), P("."), W("YOU"), W("HAVE"),
        W("REPAID"), Amt("Ksh", <<"5", "0", "0", ".", "0", "0">>)>>,
      \* 9: Invalid log message that won't match
      <<W("INVALID"), W("LOG"), W("MESSAGE"), W("THAT"), W("WON'T"),
        W("MATCH")>>,
      \* 10: Hustler Fund. You have been disbursed Ksh500.00
      <<W("HUSTLER"), W("FUND"), P("."), W("YOU"), W("HAVE"),
        W("BEEN"), W("DISBURSED"), Amt("Ksh", <<"5", "0", "0", ".",
        "0", "0">>)>>,
      \* 11: Hustler Fund. You have repaid Ksh200.00
      <<W("HUSTLER"), W("FUND"), P("."), W("YOU"), W("HAVE"),
        W("REPAID"), Amt("Ksh", <<"2", "0", "0", ".", "0", "0">>)>>,
      \* 12: Hustler Fund. Your loan balance is Ksh300.00
      <<W("HUSTLER"), W("FUND"), P("."), W("YOUR"), W("LOAN"),
        W("BALANCE"), W("IS"), Amt("Ksh", <<"3", "0", "0", ".", "0",
        "0">>)>>,
      \* 13: Confirmed. You have sent Ksh1,200.00 to Hustler Fund on 20/1/26.
      <<W("CONFIRMED"), P("."), W("YOU"), W("HAVE"), W("SENT"),
        Amt("Ksh", <<"1", ",", "2", "0", "0", ".", "0", "0">>),
        W("TO"), W("HUSTLER"), W("FUND"), W("ON"), Num("20/1/26"),
        P(".")>>,
      \* 14: You have received Ksh50 Okoa Jahazi airtime credit
      <<W("YOU"), W("HAVE"), W("RECEIVED"), Amt("Ksh", <<"5", "0">>),
        W("OKOA"), W("JAHAZI"), W("AIRTIME"), W("CREDIT")>>,
      \* 15: Your Okoa debt is Ksh50. Please repay
      <<W("YOUR"), W("OKOA"), W("DEBT"), W("IS"), Amt("Ksh", <<"5",
        "0", ".">>), W("PLEASE"), W("REPAY")>>,
      \* 16: You have received Ksh 100.00 Okoa Jahazi. Your Okoa debt is Ksh 110.00.
      <<W("YOU"), W("HAVE"), W("RECEIVED"), Amt("Ksh", <<"1", "0",
        "0", ".", "0", "0">>), W("OKOA"), W("JAHAZI"), P("."),
        W("YOUR"), W("OKOA"), W("DEBT"), W("IS"), Amt("Ksh", <<"1",
        "1", "0", ".", "0", "0", ".">>)>>,
      \* 17: Transaction ID: AM12345678. You have received Ksh1,000.00 from JOHN DOE
      <<W("TRANSACTION"), W("ID"), P(":"), Ref(<<"A", "M", "1", "2",
        "3", "4", "5", "6", "7", "8">>), P("."), W("YOU"), W("HAVE"),
        W("RECEIVED"), Amt("Ksh", <<"1", ",", "0", "0", "0", ".", "0",
        "0">>), W("FROM"), W("JOHN"), W("DOE")>>,
      \* 18: Transaction ID: AM87654321. Ksh500.00 sent to JANE DOE
      <<W("TRANSACTION"), W("ID"), P(":"), Ref(<<"A", "M", "8", "7",
        "6", "5", "4", "3", "2", "1">>), P("."), Amt("Ksh", <<"5",
        "0", "0", ".", "0", "0">>), W("SENT"), W("TO"), W("JANE"),
        W("DOE")>>,
      \* 19: Transaction ID: AM12345678. Ksh500.00 sent to JANE DOE
      <<W("TRANSACTION"), W("ID"), P(":"), Ref(<<"A", "M", "1", "2",
        "3", "4", "5", "6", "7", "8">>), P("."), Amt("Ksh", <<"5",
        "0", "0", ".", "0", "0">>), W("SENT"), W("TO"), W("JANE"),
        W("DOE")>>,
      \* 20: Airtel Money: Your transaction of Ksh200.00 was successful
      <<W("AIRTEL"), W("MONEY"), P(":"), W("YOUR"), W("TRANSACTION"),
        W("OF"), Amt("Ksh", <<"2", "0", "0", ".", "0", "0">>),
        W("WAS"), W("SUCCESSFUL")>>,
      \* 21: M-Shwari. You have deposited Ksh1,000.00 to your savings
      <<W("M-SHWARI"), P("."), W("YOU"), W("HAVE"), W("DEPOSITED"),
        Amt("Ksh", <<"1", ",", "0", "0", "0", ".", "0", "0">>),
        W("TO"), W("YOUR"), W("SAVINGS")>>,
      \* 22: M-Shwari. You have withdrawn Ksh500.00
      <<W("M-SHWARI"), P("."), W("YOU"), W("HAVE"), W("WITHDRAWN"),
        Amt("Ksh", <<"5", "0", "0", ".", "0", "0">>)>>,
      \* 23: KCB M-PESA. You have deposited Ksh1,200.00
      <<W("KCB"), W("M-PESA"), P("."), W("YOU"), W("HAVE"),
        W("DEPOSITED"), Amt("Ksh", <<"1", ",", "2", "0", "0", ".",
        "0", "0">>)>>,
      \* 24: You have received Ksh1,500.00 from Tala
      <<W("YOU"), W("HAVE"), W("RECEIVED"), Amt("Ksh", <<"1", ",",
        "5", "0", "0", ".", "0", "0">>), W("FROM"), W("TALA")>>,
      \* 25: Disbursed Ksh300.00 from Branch to your M-Pesa
      <<W("DISBURSED"), Amt("Ksh", <<"3", "0", "0", ".", "0", "0">>),
        W("FROM"), W("BRANCH"), W("TO"), W("YOUR"), W("M-PESA")>>,
      \* 26: Ksh1,000.00 paid to Zenka successfully
      <<Amt("Ksh", <<"1", ",", "0", "0", "0", ".", "0", "0">>),
        W("PAID"), W("TO"), W("ZENKA"), W("SUCCESSFULLY")>>,
      \* 27: T-Kash: You have received Ksh1,000.00 from JOHN DOE
      <<W("T-KASH"), P(":"), W("YOU"), W("HAVE"), W("RECEIVED"),
        Amt("Ksh", <<"1", ",", "0", "0", "0", ".", "0", "0">>),
        W("FROM"), W("JOHN"), W("DOE")>>,
      \* 28: T-Kash: Ksh500.00 sent to JANE DOE
      <<W("T-KASH"), P(":"), Amt("Ksh", <<"5", "0", "0", ".", "0",
        "0">>), W("SENT"), W("TO"), W("JANE"), W("DOE")>>,
      \* 29: Betika: Your bet of Ksh100.00 has been placed
      <<W("BETIKA"), P(":"), W("YOUR"), W("BET"), W("OF"), Amt("Ksh",
        <<"1", "0", "0", ".", "0", "0">>), W("HAS"), W("BEEN"),
        W("PLACED")>>,
      \* 30: SportPesa stake of KSH50 placed
      <<W("SPORTPESA"), W("STAKE"), W("OF"), Amt("KSH", <<"5", "0">>),
        W("PLACED")>>,
      \* 31: Deposited Ksh500.00 to Equity Bank
      <<W("DEPOSITED"), Amt("Ksh", <<"5", "0", "0", ".", "0", "0">>),
        W("TO"), W("EQUITY"), W("BANK")>>,
      \* 32: Withdrawn Ksh200.00 from KCB
      <<W("WITHDRAWN"), Amt("Ksh", <<"2", "0", "0", ".", "0", "0">>),
        W("FROM"), W("KCB")>>,
      \* 33: UA1234ABCD Confirmed. You have received Ksh-500.00 from JOHN DOE
      <<Ref(<<"U", "A", "1", "2", "3", "4", "A", "B", "C", "D">>),
        W("CONFIRMED"), P("."), W("YOU"), W("HAVE"), W("RECEIVED"),
        Amt("Ksh", <<"-", "5", "0", "0", ".", "0", "0">>), W("FROM"),
        W("JOHN"), W("DOE")>>,
      \* 34: UA1234ABCD Confirmed. You have received Ksh9,999,999.00 from JOHN DOE
      <<Ref(<<"U", "A", "1", "2", "3", "4", "A", "B", "C", "D">>),
        W("CONFIRMED"), P("."), W("YOU"), W("HAVE"), W("RECEIVED"),
        Amt("Ksh", <<"9", ",", "9", "9", "9", ",", "9", "9", "9", ".", "0", "0">>),
        W("FROM"), W("JOHN"), W("DOE")>>
    >>

\* Lines that more than one matcher or pattern has a claim on: an M-Pesa
\* line that names a betting platform, one that names a bank, one that names
\* a provider whose own patterns do not match, and a provider line that
\* names an earlier provider
Crossing ==
    <<
      \* 1: UA1234ABCD Confirmed. Ksh500.00 sent to BETIKA
      <<Ref(<<"U", "A", "1", "2", "3", "4", "A", "B", "C", "D">>),
        W("CONFIRMED"), P("."), Amt("Ksh", <<"5", "0", "0", ".", "0", "0">>),
        W("SENT"), W("TO"), W("BETIKA")>>,
      \* 2: UA1234ABCD Confirmed. You have received Ksh1,000.00 from EQUITY
      <<Ref(<<"U", "A", "1", "2", "3", "4", "A", "B", "C", "D">>),
        W("CONFIRMED"), P("."), W("YOU"), W("HAVE"), W("RECEIVED"),
        Amt("Ksh", <<"1", ",", "0", "0", "0", ".", "0", "0">>),
        W("FROM"), W("EQUITY")>>,
      \* 3: UA1234ABCD Confirmed. You have received Ksh1,500.00 from HUSTLER FUND
      <<Ref(<<"U", "A", "1", "2", "3", "4", "A", "B", "C", "D">>),
        W("CONFIRMED"), P("."), W("YOU"), W("HAVE"), W("RECEIVED"),
        Amt("Ksh", <<"1", ",", "5", "0", "0", ".", "0", "0">>),
        W("FROM"), W("HUSTLER"), W("FUND")>>,
      \* 4: Hustler Fund. You have repaid Ksh200.00 via Airtel
      <<W("HUSTLER"), W("FUND"), P("."), W("YOU"), W("HAVE"),
        W("REPAID"), Amt("Ksh", <<"2", "0", "0", ".", "0", "0">>),
        W("VIA"), W("AIRTEL")>>,
      \* 5: Okoa Jahazi. You have repaid Ksh50 to Hustler Fund
      <<W("OKOA"), W("JAHAZI"), P("."), W("YOU"), W("HAVE"),
        W("REPAID"), Amt("Ksh", <<"5", "0">>), W("TO"), W("HUSTLER"),
        W("FUND")>>,
      \* 6: T-Kash: Ksh500.00 sent to JANE DOE. Fuliza M-PESA
      <<W("T-KASH"), P(":"), Amt("Ksh", <<"5", "0", "0", ".", "0", "0">>),
        W("SENT"), W("TO"), W("JANE"), W("DOE"), P("."), W("FULIZA"),
        W("M-PESA")>>
    >>


(***************************************************************************)
(* pkg/engine: statistics helpers                                          *)
(***************************************************************************)
\* Deviation: the division is made without looking at the denominator
UnguardedDiv(numerator, denominator) == FDiv(numerator, denominator)

safeDiv(numerator, denominator) ==
    IF denominator = 0 THEN 0 ELSE FDiv(numerator, denominator)

RECURSIVE sum(_)
sum(values) == IF values = <<>> THEN 0 ELSE FAdd(values[1], sum(Tail(values)))

mean(values) == IF Len(values) = 0 THEN 0 ELSE FDiv(sum(values), F(Len(values)))

RECURSIVE SumSquares(_, _)
SumSquares(values, m) ==
    IF values = <<>> THEN 0
    ELSE FAdd(FMul(FSub(values[1], m), FSub(values[1], m)), SumSquares(Tail(values), m))

stdDev(values) ==
    IF Len(values) = 0 THEN 0
    ELSE FSqrt(FDiv(SumSquares(values, mean(values)), F(Len(values))))

coefficientOfVariation(values) ==
    IF Len(values) = 0 THEN 0
    ELSE IF mean(values) = 0 THEN 0
    ELSE FDiv(stdDev(values), mean(values))

FMin(a, b) == IF a <= b THEN a ELSE b

\* Deviation: the slice starts out filled with 0.5
Halves(n) == [i \in 1..n |-> Half]

\* make([]float64, n): a slice of n zeros
Zeros(n) == [i \in 1..n |-> 0]

\* Deviation: every assignment lands one index lower, the first being lost
AssignedShifted(n, vals) ==
    [i \in 1..n |-> IF i < Len(vals) THEN vals[i + 1] ELSE 0]

\* The slice made with n elements after the indexed assignments features[i] = vals[i + 1]
Assigned(n, vals) == [i \in 1..n |-> IF i <= Len(vals) THEN vals[i] ELSE Zeros(n)[i]]

(***************************************************************************)
(* The accumulation loop shared by Engine.Vectorize and MapFeatures        *)
(***************************************************************************)
Acc0 ==
    [totalIncome |-> 0, totalExpenses |-> 0, gamblingSpend |-> 0,
     utilitySpend |-> 0, fulizaBorrowed |-> 0, fulizaRepaid |-> 0,
     p2pSends |-> 0, maxTxn |-> 0, hustlerBalance |-> 0, okoaCount |-> 0,
     airtelVolume |-> 0, mmfDeposits |-> 0, bankTxnCount |-> 0,
     okoaAmount |-> 0, amounts |-> <<>>, incomeAmounts |-> <<>>, lenders |-> {}]

\* Deviation: the largest amount is overwritten by every transaction
AccHeadLatest(a, txn) ==
    [a EXCEPT !.amounts = Append(@, txn.Amount),
              !.maxTxn = txn.Amount]

\* The statements before the switch
AccHead(a, txn) ==
    [a EXCEPT !.amounts = Append(@, txn.Amount),
              !.maxTxn = IF txn.Amount > @ THEN txn.Amount ELSE @]

\* The cases of the switch that the two loops share
AccCase(a, txn) ==
    LET t == txn.Type
        amt == txn.Amount
    IN  CASE t \in {Txn.MPesaReceived, Txn.TKashReceived, Txn.AirtelReceived} ->
               [a EXCEPT !.totalIncome = FAdd(@, amt),
                         !.incomeAmounts = Append(@, amt),
                         !.airtelVolume = IF t = Txn.AirtelReceived THEN FAdd(@, amt) ELSE @]
          [] t \in {Txn.MPesaSent, Txn.TKashSent, Txn.AirtelSent} ->
               [a EXCEPT !.totalExpenses = FAdd(@, amt),
                         !.p2pSends = FAdd(@, amt),
                         !.airtelVolume = IF t = Txn.AirtelSent THEN FAdd(@, amt) ELSE @]
          [] t \in {Txn.MPesaPaybill, Txn.MPesaBuyGoods} ->
               [a EXCEPT !.totalExpenses = FAdd(@, amt),
                         !.utilitySpend = FAdd(@, FMul(amt, 3))]
          [] t = Txn.FulizaLoan ->
               [a EXCEPT !.fulizaBorrowed = FAdd(@, amt), !.totalIncome = FAdd(@, amt)]
          [] t = Txn.FulizaRepay ->
               [a EXCEPT !.fulizaRepaid = FAdd(@, amt), !.totalExpenses = FAdd(@, amt)]
          [] t = Txn.HustlerLoan ->
               LET hb == IF txn.Balance > a.hustlerBalance
                         THEN txn.Balance ELSE a.hustlerBalance
               IN  [a EXCEPT !.totalIncome = FAdd(@, amt),
                             !.hustlerBalance = IF amt > 0 /\ hb = 0 THEN amt ELSE hb]
          [] t = Txn.HustlerRepay -> [a EXCEPT !.totalExpenses = FAdd(@, amt)]
          [] t = Txn.DigitalLoan ->
               [a EXCEPT !.totalIncome = FAdd(@, amt),
                         !.lenders = IF txn.Lender # <<>>
                                     THEN @ \cup {txn.Lender} ELSE @]
          [] t = Txn.DigitalRepay ->
               [a EXCEPT !.totalExpenses = FAdd(@, amt),
                         !.lenders = IF txn.Lender # <<>>
                                     THEN @ \cup {txn.Lender} ELSE @]
          [] t = Txn.MMFDeposit ->
               [a EXCEPT !.mmfDeposits = FAdd(@, amt), !.totalExpenses = FAdd(@, amt)]
          [] t = Txn.MMFWithdraw -> [a EXCEPT !.totalIncome = FAdd(@, amt)]
          [] t = Txn.BankDeposit ->
               [a EXCEPT !.bankTxnCount = FAdd(@, F(1)), !.totalExpenses = FAdd(@, amt)]
          [] t = Txn.BankWithdraw ->
               [a EXCEPT !.bankTxnCount = FAdd(@, F(1)), !.totalIncome = FAdd(@, amt)]
          [] t = Txn.Gambling ->
               [a EXCEPT !.gamblingSpend = FAdd(@, amt), !.totalExpenses = FAdd(@, amt)]
          [] OTHER -> a

(***************************************************************************)
(* pkg/engine/engine.go: Engine.Vectorize                                  *)
(***************************************************************************)
featureCount == 22

VectorizeStep(a0, txn) ==
    LET a == AccHead(a0, txn)
    IN  CASE txn.Type = Txn.OkoaReceived ->
               [a EXCEPT !.okoaCount = FAdd(@, F(1)),
                         !.okoaAmount = FAdd(@, txn.Amount),
                         !.totalIncome = FAdd(@, txn.Amount)]
          [] txn.Type = Txn.OkoaDebt ->
               [a EXCEPT !.okoaCount = FAdd(@, F(1)),
                         !.okoaAmount = IF txn.Balance > 0 THEN txn.Balance ELSE @]
          [] OTHER -> AccCase(a, txn)

RECURSIVE VectorizeLoop(_, _)
VectorizeLoop(a, txns) ==
    IF txns = <<>> THEN a ELSE VectorizeLoop(VectorizeStep(a, txns[1]), Tail(txns))

\* Index i of the Go slice is element i + 1 of the sequence
Vectorize(txns) ==
    IF Len(txns) = 0 THEN Zeros(featureCount)
    ELSE LET a == VectorizeLoop(Acc0, txns)
             days == FMin(F(Len(txns)), F(30))
         IN  Assigned(featureCount,
             <<a.totalIncome,
               a.totalExpenses,
               FSub(a.totalIncome, a.totalExpenses),
               safeDiv(sum(a.amounts), F(Len(a.amounts))),
               F(Len(txns)),
               coefficientOfVariation(a.incomeAmounts),
               safeDiv(a.gamblingSpend, a.totalExpenses),
               safeDiv(a.utilitySpend, a.totalExpenses),
               safeDiv(a.fulizaBorrowed, a.totalIncome),
               safeDiv(a.fulizaRepaid, a.fulizaBorrowed),
               safeDiv(a.p2pSends, a.totalExpenses),
               a.maxTxn,
               stdDev(a.amounts),
               days,
               safeDiv(sum(a.amounts), days),
               a.hustlerBalance,
               a.okoaCount,
               a.airtelVolume,
               F(Cardinality(a.lenders)),
               safeDiv(FAdd(a.okoaAmount, a.fulizaBorrowed), a.totalIncome),
               safeDiv(a.mmfDeposits, a.totalIncome),
               a.bankTxnCount>>)

(***************************************************************************)
(* MapFeatures (the mapper the orchestrators call)                         *)
(***************************************************************************)
FeatureCount == 20

MapFeaturesStep(a0, txn) ==
    LET a == AccHead(a0, txn)
    IN  CASE txn.Type = Txn.OkoaReceived ->
               [a EXCEPT !.okoaCount = FAdd(@, F(1)),
                         !.totalIncome = FAdd(@, txn.Amount),
                         !.okoaAmount = IF txn.Balance > 0 THEN txn.Balance
                                        ELSE FAdd(@, txn.Amount)]
          [] txn.Type = Txn.OkoaDebt ->
               [a EXCEPT !.okoaCount = FAdd(@, F(1)),
                         !.okoaAmount = IF txn.Balance > 0 THEN txn.Balance
                                        ELSE IF txn.Amount > 0 THEN FAdd(@, txn.Amount)
                                        ELSE @]
          [] OTHER -> AccCase(a, txn)

RECURSIVE MapFeaturesLoop(_, _)
MapFeaturesLoop(a, txns) ==
    IF txns = <<>> THEN a
    ELSE MapFeaturesLoop(MapFeaturesStep(a, txns[1]), Tail(txns))

\* Deviation: the orchestrators' mapper is the 22-feature vectorizer
MapFeaturesWide(txns) == Vectorize(txns)

MapFeatures(txns) ==
    IF Len(txns) = 0 THEN Zeros(FeatureCount)
    ELSE LET a == MapFeaturesLoop(Acc0, txns)
         IN  Assigned(FeatureCount,
             <<a.totalIncome,
               a.totalExpenses,
               safeDiv(a.totalIncome, a.totalExpenses),
               F(Len(txns)),
               a.maxTxn,
               coefficientOfVariation(a.incomeAmounts),
               safeDiv(a.gamblingSpend, a.totalExpenses),
               safeDiv(a.utilitySpend, a.totalExpenses),
               safeDiv(a.fulizaBorrowed, a.totalIncome),
               safeDiv(a.fulizaRepaid, a.fulizaBorrowed),
               safeDiv(a.p2pSends, a.totalExpenses),
               stdDev(a.amounts),
               FMin(F(Len(txns)), F(30)),
               a.hustlerBalance,
               a.okoaCount,
               a.airtelVolume,
               F(Cardinality(a.lenders)),
               safeDiv(FAdd(a.okoaAmount, a.fulizaBorrowed), a.totalIncome),
               safeDiv(a.mmfDeposits, a.totalIncome),
               a.bankTxnCount>>)

(***************************************************************************)
(* pkg/parser/parser.go: DefaultParser.ParseLogs                           *)
(*                                                                         *)
(* A context is the loop index from which a read of ctx.Done() succeeds:   *)
(* cancellation is monotone, and the loop only looks at its checkpoints.   *)
(***************************************************************************)
CheckStride == 100

Background == [cancelled |-> FALSE, at |-> 0]

CancelledFrom(i) == [cancelled |-> TRUE, at |-> i]

\* Deviation: the signal is looked at before every line of the stride
DoneAhead(ctx, i) == ctx.cancelled /\ ctx.at <= i + CheckStride - 1

\* case <-ctx.Done(): at loop index i
Done(ctx, i) == ctx.cancelled /\ ctx.at <= i

\* return txns, nil
Returned(txns) == [txns |-> txns, nilList |-> FALSE, err |-> FALSE, at |-> 0]

\* Deviation: the partial list escapes with the error
CancelledKeepingPartial(i, txns) ==
    [txns |-> txns, nilList |-> FALSE, err |-> TRUE, at |-> i]

\* return nil, fmt.Errorf("parsing cancelled at log %d: %w", i, ctx.Err())
CancelledAt(i, txns) == [txns |-> <<>>, nilList |-> TRUE, err |-> TRUE, at |-> i]

\* Deviation: a line that failed to parse is kept all the same
KeepsAll(r) == TRUE

\* if err != nil { continue }
Keeps(r) == ~r.err

TxnsOf(rs) == [j \in 1..Len(rs) |-> rs[j].txn]

\* The iterations over lines, none of them at a checkpoint but possibly the
\* first: each line is parsed, and its transaction appended unless it failed
ParseRun(lines) ==
    TxnsOf(SelectSeq([j \in 1..Len(lines) |-> parseSingleLog(lines[j])], Keeps))

\* The for loop from the checkpoint i (0-based, a multiple of CheckStride)
\* with txns accumulated so far: the context is looked at, then the lines up
\* to the next checkpoint are gone through
RECURSIVE ParseLogsLoop(_, _, _, _)
ParseLogsLoop(ctx, logs, i, txns) ==
    IF i >= Len(logs) THEN Returned(txns)
    ELSE IF Done(ctx, i) THEN CancelledAt(i, txns)
    ELSE ParseLogsLoop(ctx, logs, i + CheckStride,
                       txns \o ParseRun(SubSeq(logs, i + 1,
                                               MinOf({i + CheckStride, Len(logs)}))))

ParseLogs(ctx, logs) ==
    IF Len(logs) = 0 THEN Returned(<<>>) ELSE ParseLogsLoop(ctx, logs, 0, <<>>)

(***************************************************************************)
(* Batches of SMS lines: windows of the catalogue, taken cyclically, and   *)
(* the batch of the crossing lines                                         *)
(***************************************************************************)
MaxLogs == 201

MaxRot == 3

MaxTxns == 2

\* n lines of the catalogue from line k + 1 on, cyclically
Batch(n, k) == [j \in 1..n |-> Catalogue[((j - 1 + k) % Len(Catalogue)) + 1]]

\* Where the successive windows start
RotStride == 7

Batches ==
    {Batch(n, k * RotStride) :
        n \in {0, 1, 2, 3, CheckStride - 1, CheckStride, CheckStride + 1,
               2 * CheckStride - 1, MaxLogs},
        k \in 0..(MaxRot - 1)}
    \cup {Crossing}

Contexts ==
    {Background} \cup
    {CancelledFrom(i) : i \in {0, 1, CheckStride - 1, CheckStride,
                               CheckStride + 1, 2 * CheckStride, MaxLogs}}

(***************************************************************************)
(* State                                                                   *)
(***************************************************************************)
VARIABLES
    logs,        \* parser: the batch handed to ParseLogs
    parseOut,    \* parser: what the last ParseLogs call was given and returned
    amountIn,    \* parser: the text handed to parseAmount
    amountOut,   \* parser: what the last parseAmount call returned
    vecIn,       \* vectorizer: the transactions handed to Vectorize
    vecOut,      \* vectorizer: what the last Vectorize call returned
    once,        \* engine: sync.Once of GetEngine ("new", "running", "done")
    instance,    \* engine: the package variable instance (a nil pointer or an engine)
    initErr,     \* engine: the package variable initErr
    engines,     \* engine: number of BoreholeEngine values allocated so far
    loads,       \* engine: outcomes of the model loads run so far, in order
    pc,          \* engine: where each caller stands
    req,         \* engine: the request each caller is serving
    seen,        \* engine: what each caller read or allocated inside GetEngine
    res,         \* engine: what each caller's last call returned
    secOnce,     \* security: sync.Once of GetSecurityModule
    secInstance, \* security: the package variable secInstance
    keygens,     \* security: key pairs generated so far, in order
    crashed,     \* security: the key generation panic took the process down
    clock,       \* security: the wall clock, in seconds
    issued,      \* security: certificates handed out by IssueCertificate
    verifyOut,   \* security: what the last VerifyCertificate call was given and returned
    pubOut       \* security: what the last GetPublicKeyBase64 call returned

parserVars == <<logs, parseOut, amountIn, amountOut>>

vecVars == <<vecIn, vecOut>>

engineVars == <<once, instance, initErr, engines, loads, pc, req, seen, res>>

secVars == <<secOnce, secInstance, keygens, crashed, clock, issued, verifyOut, pubOut>>

vars == <<parserVars, vecVars, engineVars, secVars>>

NotCalled == [called |-> FALSE]

(***************************************************************************)
(* Parser specification: one ParseLogs call on a batch                     *)
(***************************************************************************)
\* No parseAmount call of its own has been made
AmountIdle == amountIn = [text |-> <<>>] /\ amountOut = NotCalled

ParserIdle == logs = <<>> /\ parseOut = NotCalled /\ AmountIdle

ParseLogsCall(ctx) ==
    /\ ~parseOut.called
    /\ parseOut' = [called |-> TRUE, ctx |-> ctx, out |-> ParseLogs(ctx, logs)]
    /\ UNCHANGED <<logs, amountIn, amountOut, vecVars, engineVars, secVars>>

(***************************************************************************)
(* parseAmount specification: one parseAmount call on a text               *)
(***************************************************************************)
\* The currency prefix in the letter cases it is written in
Prefixes ==
    {<<>>, <<"K", "s", "h">>, <<"k", "s", "h">>, <<"K", "E", "S">>, <<"k", "e", "s">>, <<"K", "S", "H">>, <<"K", "e", "s">>, <<"K", "S", "h">>}

\* What follows the prefix, with whether it is a decimal number and, when it
\* is, the number
Bodies ==
    {[txt |-> <<"1", ",", "5", "0", "0", ".", "0", "0">>, numeric |-> TRUE, value |-> F(1500)],
     [txt |-> <<"5", "0", "0">>, numeric |-> TRUE, value |-> F(500)],
     [txt |-> <<"5", "0", "0", "0", ".", "5", "0">>, numeric |-> TRUE, value |-> F(5000) + Half],
     [txt |-> <<"1", "0", ",", "0", "0", "0">>, numeric |-> TRUE, value |-> F(10000)],
     [txt |-> <<>>, numeric |-> FALSE, value |-> 0],
     [txt |-> <<"a", "b", "c">>, numeric |-> FALSE, value |-> 0],
     [txt |-> <<"i", "n", "f">>, numeric |-> FALSE, value |-> 0],
     [txt |-> <<"N", "a", "N">>, numeric |-> FALSE, value |-> 0],
     [txt |-> <<"I", "n", "f", "i", "n", "i", "t", "y">>, numeric |-> FALSE, value |-> 0]}

\* The texts handed to parseAmount: a prefix or none, a space or none, a body
AmountInputs ==
    {[text |-> prefix \o gap \o body.txt, prefix |-> prefix, body |-> body] :
        prefix \in Prefixes, gap \in {<<>>, <<" ">>}, body \in Bodies}

parseAmountCall ==
    /\ ~amountOut.called
    /\ amountOut' = [called |-> TRUE, out |-> parseAmount(amountIn.text)]
    /\ UNCHANGED <<logs, parseOut, amountIn, vecVars, engineVars, secVars>>

(***************************************************************************)
(* Vectorizer specification: one Vectorize call on a list of transactions  *)
(***************************************************************************)
VecIdle == vecIn = <<>> /\ vecOut = NotCalled

\* What parseSingleLog hands back for each catalogue line
CatalogueTxns == {parseSingleLog(Catalogue[k]).txn : k \in 1..Len(Catalogue)}

RECURSIVE SeqsUpTo(_, _)
SeqsUpTo(S, n) ==
    IF n = 0 THEN {<<>>}
    ELSE LET shorter == SeqsUpTo(S, n - 1)
         IN  shorter \cup {Append(q, x) : q \in {r \in shorter : Len(r) = n - 1}, x \in S}

VecInputs == SeqsUpTo(CatalogueTxns, MaxTxns)

VectorizeCall ==
    /\ ~vecOut.called
    /\ vecOut' = [called |-> TRUE, features |-> Vectorize(vecIn)]
    /\ UNCHANGED <<vecIn, parserVars, engineVars, secVars>>

(***************************************************************************)
(* Inference engine: BoreholeEngine.Predict                                *)
(***************************************************************************)
\* A nil pointer, of an engine or of an ensemble
NilPtr == [null |-> TRUE]

\* What the embedded resource may hold: the ensemble the engine tests
\* describe (one split on feature 0 at 1000.0, leaf 0.5 below it and -0.5
\* from it on), and one of the same shape whose leaves saturate the sigmoid
Models ==
    {[null |-> FALSE, split |-> 0, thr |-> F(1000), yes |-> Half, no |-> 0 - Half],
     [null |-> FALSE, split |-> 0, thr |-> F(1000), yes |-> F(100), no |-> 0 - F(100)]}

\* Ensemble.PredictSingle: the raw margin of the tree
PredictSingle(ensemble, features) ==
    IF features[ensemble.split + 1] < ensemble.thr THEN ensemble.yes ELSE ensemble.no

\* math.Exp, on the margins the ensembles produce
Exp(x) ==
    CASE x < 0 - F(50) -> 0
      [] x = 0 - Half -> 6
      [] x = 0 -> F(1)
      [] x = Half -> 16
      [] x > F(50) -> F(1000000)

\* Deviation: the raw margin is returned without the activation
RawMargin(rawMargin) == rawMargin

\* 1.0 / (1.0 + math.Exp(-rawMargin))
Sigmoid(rawMargin) == FDiv(F(1), F(1) + Exp(0 - rawMargin))

\* The width Predict asks of its input
MinFeatures == 20

Predict(e, features) ==
    IF e.ensemble.null THEN Half
    ELSE IF Len(features) < MinFeatures THEN 0
    ELSE Sigmoid(PredictSingle(e.ensemble, features))

(***************************************************************************)
(* Inference engine: GetEngine, one step per access to the package state   *)
(***************************************************************************)
MaxCallers == 2

Callers == 1..MaxCallers

NewEngine(id, ensemble) == [null |-> FALSE, id |-> id, ensemble |-> ensemble]

\* No request taken, or no result yet
None == [kind |-> "none"]

EngineIdle ==
    /\ once = "new"
    /\ instance = NilPtr
    /\ initErr = "nil"
    /\ engines = 0
    /\ loads = <<>>
    /\ pc = [c \in Callers |-> "idle"]
    /\ req = [c \in Callers |-> None]
    /\ seen = [c \in Callers |-> NilPtr]
    /\ res = [c \in Callers |-> None]

\* The vectors handed to Predict directly
PredictInputs ==
    {Zeros(MinFeatures - 1), Zeros(MinFeatures), Zeros(featureCount),
     [Zeros(MinFeatures) EXCEPT ![1] = F(5000)]}

\* A client takes the engine and asks it for a prediction
CallPredict(c, features) ==
    /\ pc[c] \in {"idle", "done"}
    /\ req' = [req EXCEPT ![c] = [kind |-> "predict", features |-> features]]
    /\ res' = [res EXCEPT ![c] = None]
    /\ pc' = [pc EXCEPT ![c] = "once"]
    /\ UNCHANGED <<once, instance, initErr, engines, loads, seen>>
    /\ UNCHANGED <<parserVars, vecVars, secVars>>

\* Deviation: a failed load leaves the guard open for the next caller
OnceAfterRetrying(outcome) == IF outcome = "ok" THEN "done" ELSE "new"

\* sync.Once: the function has run, however it ended
OnceAfter(outcome) == "done"

\* once.Do: the first caller enters, later ones pass, and those arriving
\* while the function runs wait
OnceDo(c) ==
    /\ pc[c] = "once"
    /\ once # "running"
    /\ IF once = "new"
       THEN once' = "running" /\ pc' = [pc EXCEPT ![c] = "load"]
       ELSE once' = once /\ pc' = [pc EXCEPT ![c] = "check"]
    /\ UNCHANGED <<instance, initErr, engines, loads, req, seen, res>>
    /\ UNCHANGED <<parserVars, vecVars, secVars>>

\* What leaves.XGEnsembleFromReader can do with the embedded resource
LoadOutcomes ==
    {[kind |-> "ok", ensemble |-> m] : m \in Models} \cup
    {[kind |-> "err", ensemble |-> NilPtr], [kind |-> "panic", ensemble |-> NilPtr]}

\* The function passed to once.Do
LoadModel(c, outcome) ==
    /\ pc[c] = "load"
    /\ engines' = engines + 1
    /\ loads' = Append(loads, outcome.kind)
    /\ initErr' = IF outcome.kind = "ok" THEN initErr ELSE outcome.kind
    /\ instance' = IF outcome.kind = "panic" THEN instance
                   ELSE NewEngine(engines + 1, outcome.ensemble)
    /\ once' = OnceAfter(outcome.kind)
    /\ pc' = [pc EXCEPT ![c] = "check"]
    /\ UNCHANGED <<req, seen, res>>
    /\ UNCHANGED <<parserVars, vecVars, secVars>>

\* if instance == nil
CheckInstance(c) ==
    /\ pc[c] = "check"
    /\ pc' = [pc EXCEPT ![c] = IF instance.null THEN "fix" ELSE "ret"]
    /\ UNCHANGED <<once, instance, initErr, engines, loads, req, seen, res>>
    /\ UNCHANGED <<parserVars, vecVars, secVars>>

\* instance = &BoreholeEngine{}
FixInstance(c) ==
    /\ pc[c] = "fix"
    /\ engines' = engines + 1
    /\ instance' = NewEngine(engines + 1, NilPtr)
    /\ pc' = [pc EXCEPT ![c] = "ret"]
    /\ UNCHANGED <<once, initErr, loads, req, seen, res>>
    /\ UNCHANGED <<parserVars, vecVars, secVars>>

\* return instance, nil
ReturnInstance(c) ==
    /\ pc[c] = "ret"
    /\ seen' = [seen EXCEPT ![c] = instance]
    /\ pc' = [pc EXCEPT ![c] = "predict"]
    /\ UNCHANGED <<once, instance, initErr, engines, loads, req, res>>
    /\ UNCHANGED <<parserVars, vecVars, secVars>>

\* json.Marshal refuses a float that is NaN or infinite
Unsupported(features) ==
    \E i \in 1..Len(features) : features[i] = NaN \/ IsInf(features[i])

\* parser.ScoreResult as the text json.Marshal makes of it; when Marshal
\* fails its error is dropped and the empty string is returned
ScoreResult(score, features, txnCount) ==
    IF Unsupported(features) THEN [kind |-> "empty"]
    ELSE [kind |-> "score", error |-> "", Score |-> score, Features |-> features,
          TxnCount |-> txnCount]

\* ScoreResponse as the body json.NewEncoder(w).Encode writes after the
\* status 200; Message is left out of the text when it is empty
ScoreResponse(score, features, txnCount) ==
    IF Unsupported(features) THEN [kind |-> "empty"]
    ELSE IF txnCount = 0
    THEN [kind |-> "score", error |-> "", Score |-> score, Features |-> features,
          TxnCount |-> txnCount,
          Message |-> "no transactions could be parsed from provided logs"]
    ELSE [kind |-> "score", error |-> "", Score |-> score, Features |-> features,
          TxnCount |-> txnCount]

\* The call of Predict on the engine GetEngine returned, and what the caller
\* makes of the score
PredictCall(c) ==
    /\ pc[c] = "predict"
    /\ LET score == Predict(seen[c], req[c].features)
       IN  res' = [res EXCEPT ![c] =
                     IF req[c].kind = "score"
                     THEN IF req[c].via = "http"
                          THEN ScoreResponse(score, req[c].features, req[c].txnCount)
                          ELSE ScoreResult(score, req[c].features, req[c].txnCount)
                     ELSE [kind |-> "predict", Score |-> score]]
    /\ pc' = [pc EXCEPT ![c] = "done"]
    /\ UNCHANGED <<once, instance, initErr, engines, loads, req, seen>>
    /\ UNCHANGED <<parserVars, vecVars, secVars>>

(***************************************************************************)
(* pkg/mobile/surface.go: MobileEngine.CalculateBoreholeScore              *)
(***************************************************************************)
\* The argument: a JSON array of strings, or text that is not one.  Besides
\* the rotations there is the batch of the one line that matches no pattern
\* and the batch that starts with the largest amount.
ScoreInputs ==
    {[valid |-> FALSE, logs |-> <<>>]} \cup
    {[valid |-> TRUE, logs |-> Batch(n, k * RotStride)] :
        n \in 0..MaxTxns, k \in 0..(MaxRot - 1)} \cup
    {[valid |-> TRUE, logs |-> Batch(1, RotStride + 1)],
     [valid |-> TRUE, logs |-> Batch(2, Len(Catalogue) - 1)]}

\* What the orchestrator holds when it turns to the engine, out being what
\* ParseLogs returned: an error to hand back, or the features
Mapped(jsonLogs, out) ==
    IF ~jsonLogs.valid
    THEN [failed |-> TRUE, via |-> "mobile", error |-> "invalid_json_input"]
    ELSE IF out.err THEN [failed |-> TRUE, via |-> "mobile", error |-> "parsing_failed"]
    ELSE [failed |-> FALSE, via |-> "mobile", features |-> MapFeatures(out.txns),
          txnCount |-> Len(out.txns)]

Started(c, jsonLogs, m) ==
    IF m.failed
    THEN /\ res' = [res EXCEPT ![c] = [kind |-> "error", error |-> m.error]]
         /\ req' = [req EXCEPT ![c] = [kind |-> "score", via |-> m.via, logs |-> jsonLogs]]
         /\ pc' = [pc EXCEPT ![c] = "done"]
    ELSE /\ res' = [res EXCEPT ![c] = None]
         /\ req' = [req EXCEPT ![c] =
                      [kind |-> "score", via |-> m.via, logs |-> jsonLogs,
                       features |-> m.features, txnCount |-> m.txnCount]]
         /\ pc' = [pc EXCEPT ![c] = "once"]

\* json.Unmarshal, ParseLogs and MapFeatures; the call of GetEngine follows
CallScore(c, jsonLogs) ==
    /\ pc[c] \in {"idle", "done"}
    /\ Started(c, jsonLogs, Mapped(jsonLogs, ParseLogs(Background, jsonLogs.logs)))
    /\ UNCHANGED <<once, instance, initErr, engines, loads, seen>>
    /\ UNCHANGED <<parserVars, vecVars, secVars>>

(***************************************************************************)
(* The HTTP test server: scoreHandler                                      *)
(***************************************************************************)
\* What the handler holds when it turns to the engine, out being what
\* ParseLogs returned: an error response to write, or the features
Decoded(body, out) ==
    IF ~body.valid
    THEN [failed |-> TRUE, via |-> "http", error |-> "invalid request body"]
    ELSE IF Len(body.logs) = 0
    THEN [failed |-> TRUE, via |-> "http", error |-> "logs array cannot be empty"]
    ELSE IF out.err
    THEN [failed |-> TRUE, via |-> "http", error |-> "failed to parse logs"]
    ELSE [failed |-> FALSE, via |-> "http", features |-> MapFeatures(out.txns),
          txnCount |-> Len(out.txns)]

\* Decode, the check of the array, ParseLogs under the request's context and
\* MapFeatures; the call of GetEngine follows
scoreHandler(c, body, ctx) ==
    /\ pc[c] \in {"idle", "done"}
    /\ Started(c, body, Decoded(body, ParseLogs(ctx, body.logs)))
    /\ UNCHANGED <<once, instance, initErr, engines, loads, seen>>
    /\ UNCHANGED <<parserVars, vecVars, secVars>>

(***************************************************************************)
(* Security module                                                         *)
(*                                                                         *)
(* Ed25519 is taken as ideal: a signature is determined by the signing key *)
(* and the signed bytes, and verifies under the matching public key and    *)
(* those bytes only.  A JSON text is its sequence of members <<key,        *)
(* value>>; a Base64 text either decodes to bytes or does not.             *)
(***************************************************************************)
MaxKeys == 2

MaxClock == 1

MaxCerts == 2

KeyIds == 1..MaxKeys

\* ed25519.GenerateKey with the randomness k
GenerateKey(k) == [publicKey |-> [pk |-> k], privateKey |-> [sk |-> k]]

\* &SecurityModule{publicKey: pub, privateKey: priv}
NewSecurityModule(k) ==
    [null |-> FALSE, publicKey |-> GenerateKey(k).publicKey,
     privateKey |-> GenerateKey(k).privateKey]

\* ed25519.Sign
Sign(privateKey, message) == [kind |-> "sig", signer |-> privateKey.sk, msg |-> message]

\* ed25519.Verify
Verify(publicKey, message, sig) ==
    sig.kind = "sig" /\ sig.signer = publicKey.pk /\ sig.msg = message

\* base64.StdEncoding.EncodeToString
EncodeToString(bytes) == [b64 |-> TRUE, bytes |-> bytes]

\* Deviation: text that is not Base64 decodes to no bytes, without an error
DecodeLenient(text) ==
    IF text.b64 THEN [err |-> FALSE, bytes |-> text.bytes]
    ELSE [err |-> FALSE, bytes |-> [kind |-> "junk"]]

\* base64.StdEncoding.DecodeString
DecodeString(text) ==
    IF text.b64 THEN [err |-> FALSE, bytes |-> text.bytes] ELSE [err |-> TRUE]

\* json.Marshal of a CertificatePayload: the members in field order, under
\* their json tags
Marshal(payload) ==
    <<<<"score", payload.Score>>, <<"iat", payload.Timestamp>>,
      <<"exp", payload.Expires>>, <<"uid", payload.UserID>>,
      <<"tampered", payload.Tampered>>>>

\* json.Unmarshal into a CertificatePayload
\* The member a field is read from: keys are matched to the json tags
\* without regard to letter case
Member(text, tag) ==
    CHOOSE i \in 1..Len(text) :
        (IF text[i][1] = "Score" THEN "score" ELSE text[i][1]) = tag

\* json.Unmarshal into a CertificatePayload

Unmarshal(text) ==
    [Score |-> text[Member(text, "score")][2],
     Timestamp |-> text[Member(text, "iat")][2],
     Expires |-> text[Member(text, "exp")][2],
     UserID |-> text[Member(text, "uid")][2],
     Tampered |-> text[Member(text, "tampered")][2]]

SecIdle ==
    /\ secOnce = "new"
    /\ secInstance = NilPtr
    /\ keygens = <<>>
    /\ crashed = FALSE
    /\ clock = 0
    /\ issued = {}
    /\ verifyOut = NotCalled
    /\ pubOut = NotCalled

\* Deviation: every call generates the pair afresh
SecOnceRunsAlways(state) == TRUE

\* secOnce.Do runs its function on the first call only
SecOnceRuns(state) == state = "new"

\* GetSecurityModule; keygenFails is ed25519.GenerateKey returning an error,
\* which is turned into a panic that nothing recovers
GetSecurityModule(k, keygenFails) ==
    /\ ~crashed
    /\ SecOnceRuns(secOnce)
    /\ secOnce' = "done"
    /\ IF keygenFails
       THEN crashed' = TRUE /\ UNCHANGED <<secInstance, keygens>>
       ELSE /\ secInstance' = NewSecurityModule(k)
            /\ keygens' = Append(keygens, k)
            /\ crashed' = crashed
    /\ UNCHANGED <<clock, issued, verifyOut, pubOut>>
    /\ UNCHANGED <<parserVars, vecVars, engineVars>>

\* The scores and subject ids certificates are asked for
CertScores == {Half, F(3) \div 2}

CertUids == {"anon_user_xyz"}

\* SecurityModule.IssueCertificate; elapsed is the time that passes between
\* its two readings of the clock
IssueCertificate(score, uid, elapsed) ==
    /\ ~crashed
    /\ ~secInstance.null
    /\ clock + elapsed <= MaxClock
    /\ LET payload == [Score |-> score,
                       Timestamp |-> clock,
                       Expires |-> clock + elapsed + 24 * 3600,
                       UserID |-> uid,
                       Tampered |-> FALSE]
           data == Marshal(payload)
           signature == Sign(secInstance.privateKey, data)
           cert == [payload |-> data, signature |-> EncodeToString(signature)]
       IN  /\ cert \notin issued
           /\ Cardinality(issued) < MaxCerts
           /\ issued' = issued \cup {cert}
    /\ clock' = clock + elapsed
    /\ UNCHANGED <<secOnce, secInstance, keygens, crashed, verifyOut, pubOut>>
    /\ UNCHANGED <<parserVars, vecVars, engineVars>>

\* The clock moves on between calls
Tick ==
    /\ ~crashed
    /\ clock < MaxClock
    /\ clock' = clock + 1
    /\ UNCHANGED <<secOnce, secInstance, keygens, crashed, issued, verifyOut, pubOut>>
    /\ UNCHANGED <<parserVars, vecVars, engineVars>>

\* Deviation: the payload is parsed and serialized again before the check
VerifyReserialized(s, payloadJSON, signatureB64) ==
    LET dec == DecodeString(signatureB64)
    IN  IF dec.err THEN [valid |-> FALSE, err |-> TRUE]
        ELSE [valid |-> Verify(s.publicKey, Marshal(Unmarshal(payloadJSON)), dec.bytes),
              err |-> FALSE]

\* SecurityModule.VerifyCertificate
VerifyCertificate(s, payloadJSON, signatureB64) ==
    LET dec == DecodeString(signatureB64)
    IN  IF dec.err THEN [valid |-> FALSE, err |-> TRUE]
        ELSE [valid |-> Verify(s.publicKey, payloadJSON, dec.bytes), err |-> FALSE]

\* The texts a holder can present in place of an issued payload: the payload
\* itself, and the payload with one byte changed
Presentable(payloadJSON) ==
    {payloadJSON,
     [payloadJSON EXCEPT ![1][2] = @ + 1],
     [payloadJSON EXCEPT ![1][1] = "Score"],
     [payloadJSON EXCEPT ![3][2] = @ + 1],
     [payloadJSON EXCEPT ![5][2] = TRUE]}

\* The signature texts a holder can present with a payload: the issued one,
\* one made over the same bytes with another pair, Base64 of other bytes, and
\* text that is not Base64
Signatures(cert) ==
    {cert.signature, EncodeToString([kind |-> "junk"]), [b64 |-> FALSE]} \cup
    {EncodeToString(Sign(GenerateKey(k).privateKey, cert.payload)) : k \in KeyIds}

VerifyCall(payloadJSON, signatureB64) ==
    /\ ~crashed
    /\ ~secInstance.null
    /\ verifyOut' = [called |-> TRUE, payloadJSON |-> payloadJSON,
                     signatureB64 |-> signatureB64,
                     out |-> VerifyCertificate(secInstance, payloadJSON, signatureB64)]
    /\ UNCHANGED <<secOnce, secInstance, keygens, crashed, clock, issued, pubOut>>
    /\ UNCHANGED <<parserVars, vecVars, engineVars>>

\* SecurityModule.GetPublicKeyBase64
GetPublicKeyBase64 ==
    /\ ~crashed
    /\ ~secInstance.null
    /\ pubOut' = [called |-> TRUE, key |-> EncodeToString(secInstance.publicKey)]
    /\ UNCHANGED <<secOnce, secInstance, keygens, crashed, clock, issued, verifyOut>>
    /\ UNCHANGED <<parserVars, vecVars, engineVars>>

(***************************************************************************)
(* Specifications                                                          *)
(***************************************************************************)
InitParse ==
    logs \in Batches /\ parseOut = NotCalled /\ AmountIdle /\ VecIdle /\ EngineIdle /\ SecIdle

NextParse == \E ctx \in Contexts : ParseLogsCall(ctx)

SpecParse == InitParse /\ [][NextParse]_vars

InitAmount ==
    /\ amountIn \in AmountInputs
    /\ amountOut = NotCalled
    /\ logs = <<>>
    /\ parseOut = NotCalled
    /\ VecIdle
    /\ EngineIdle
    /\ SecIdle

NextAmount == parseAmountCall

SpecAmount == InitAmount /\ [][NextAmount]_vars

InitVec == vecIn \in VecInputs /\ vecOut = NotCalled /\ ParserIdle /\ EngineIdle /\ SecIdle

NextVec == VectorizeCall

SpecVec == InitVec /\ [][NextVec]_vars

InitIdle == ParserIdle /\ VecIdle /\ EngineIdle /\ SecIdle

NextEngine ==
    \/ \E c \in Callers, features \in PredictInputs : CallPredict(c, features)
    \/ \E c \in Callers : OnceDo(c)
    \/ \E c \in Callers, outcome \in LoadOutcomes : LoadModel(c, outcome)
    \/ \E c \in Callers : CheckInstance(c)
    \/ \E c \in Callers : FixInstance(c)
    \/ \E c \in Callers : ReturnInstance(c)
    \/ \E c \in Callers : PredictCall(c)

SpecEngine == InitIdle /\ [][NextEngine]_vars

\* One host thread calling the orchestrator
NextScore ==
    \/ \E jsonLogs \in ScoreInputs : CallScore(1, jsonLogs)
    \/ \E body \in ScoreInputs, ctx \in {Background, CancelledFrom(0)} :
          scoreHandler(1, body, ctx)
    \/ OnceDo(1)
    \/ \E outcome \in LoadOutcomes : LoadModel(1, outcome)
    \/ CheckInstance(1)
    \/ FixInstance(1)
    \/ ReturnInstance(1)
    \/ PredictCall(1)

SpecScore == InitIdle /\ [][NextScore]_vars

NextSec ==
    \/ \E k \in KeyIds, keygenFails \in BOOLEAN : GetSecurityModule(k, keygenFails)
    \/ \E score \in CertScores, uid \in CertUids, elapsed \in {0, 1} :
          IssueCertificate(score, uid, elapsed)
    \/ Tick
    \/ \E cert \in issued :
          \E payloadJSON \in Presentable(cert.payload), signatureB64 \in Signatures(cert) :
             VerifyCall(payloadJSON, signatureB64)
    \/ GetPublicKeyBase64

SpecSec == InitIdle /\ [][NextSec]_vars

(***************************************************************************)
(* Properties                                                              *)
(***************************************************************************)

\* C1: for every sequence of Transactions, the empty one included, Vectorize
\* returns a vector of exactly 22 elements, and for the empty sequence every
\* element is 0.
C1_VectorizeWidth ==
    vecOut.called =>
        /\ Len(vecOut.features) = 22
        /\ vecIn = <<>> => \A i \in 1..22 : vecOut.features[i] = 0

\* Vectorize has run on a non-empty list and set the last feature
C1_Witness ==
    /\ vecOut.called
    /\ Len(vecIn) = MaxTxns
    /\ vecOut.features[22] > 0
    /\ vecOut.features[1] > 0

C3_ParseLogsKeepsMatchingLines ==
    (parseOut.called /\ ~parseOut.ctx.cancelled) =>
        /\ ~parseOut.out.err
        /\ ~parseOut.out.nilList
        /\ LET parsed == [j \in 1..Len(logs) |-> parseSingleLog(logs[j])]
               matching == {j \in 1..Len(logs) : ~parsed[j].err}
           IN  /\ Len(parseOut.out.txns) = Cardinality(matching)
               /\ \A j \in matching :
                     parseOut.out.txns[Cardinality({k \in matching : k <= j})] =
                         parsed[j].txn

\* ParseLogs has gone through a batch longer than the stride, with the signal
\* never set, in which some lines parse and some do not
C3_Witness ==
    /\ parseOut.called
    /\ ~parseOut.ctx.cancelled
    /\ Len(logs) > CheckStride
    /\ Len(parseOut.out.txns) > CheckStride \div 2
    /\ Len(parseOut.out.txns) < Len(logs)

\* C4: whenever ParseLogs observes the cancel signal set at a checkpoint it
\* returns an error and a nil list, discarding what it parsed before that
\* checkpoint; in particular a signal cancelled before the call, on a batch
\* of 100 or more lines, yields an error and no transactions.
C4_CancelledParseReturnsNothing ==
    parseOut.called =>
        /\ (\E i \in 0..(Len(logs) - 1) : i % CheckStride = 0 /\ Done(parseOut.ctx, i)) =>
              /\ parseOut.out.err
              /\ parseOut.out.nilList
              /\ parseOut.out.txns = <<>>
        /\ (parseOut.ctx = CancelledFrom(0) /\ Len(logs) >= 100) =>
              /\ parseOut.out.err
              /\ parseOut.out.nilList
              /\ parseOut.out.txns = <<>>

\* ParseLogs has parsed the lines up to its second checkpoint and found the
\* signal set there
C4_Witness ==
    /\ parseOut.called
    /\ parseOut.ctx.cancelled
    /\ parseOut.ctx.at > 0
    /\ parseOut.out.err
    /\ parseOut.out.nilList
    /\ parseOut.out.at = CheckStride

\* C5 as stated: under any interleaving of concurrent GetEngine calls, the
\* model load runs exactly once, no caller returns before that load has
\* completed, and every caller receives the same engine instance.
C5_AsStated ==
    /\ Len(loads) <= 1
    /\ \A c \in Callers :
          pc[c] \in {"check", "fix", "ret", "predict"} => (once = "done" /\ Len(loads) = 1)
    /\ \A c, d \in Callers :
          (~seen[c].null /\ ~seen[d].null) => seen[c].id = seen[d].id

\* C6: if the model load fails on first use it is never attempted again: the
\* engine stays degraded, every later GetEngine call returns without
\* reloading, and every Predict call returns 0.5.
C6_FailedLoadIsFinal ==
    (loads # <<>> /\ loads[1] # "ok") =>
        /\ Len(loads) = 1
        /\ once = "done"
        /\ instance.null \/ instance.ensemble.null
        /\ \A c \in Callers : ~seen[c].null => seen[c].ensemble.null
        /\ \A c \in Callers : res[c].kind = "predict" => res[c].Score = Half

\* The load has failed with an error and every caller has since had a
\* prediction, one of them for a vector of the full width
C6_Witness ==
    /\ loads = <<"err">>
    /\ \A c \in Callers : res[c].kind = "predict"
    /\ \E c \in Callers : Len(req[c].features) = MinFeatures

\* C7 as stated: Predict returns exactly 0.5 whenever the input vector's
\* length does not match the model's expected input width or the engine is
\* in the degraded state.
C7_AsStated ==
    \A c \in Callers :
        (res[c].kind = "predict" /\
           (Len(req[c].features) # 20 \/ seen[c].ensemble.null)) =>
        res[c].Score = Half

\* C8: for every input vector and every engine state, model loaded or
\* degraded, Predict returns a value in [0,1].
C8_PredictInUnitInterval ==
    \A c \in Callers :
        res[c].kind = "predict" => (0 <= res[c].Score /\ res[c].Score <= F(1))

\* Predict has run the loaded ensemble on a vector of the full width and
\* returned the activation of a leaf
C8_Witness ==
    \E c \in Callers :
        /\ res[c].kind = "predict"
        /\ ~seen[c].ensemble.null
        /\ Len(req[c].features) >= MinFeatures
        /\ res[c].Score \notin {0, Half, F(1)}

\* C9: the signing key pair is generated exactly once per process and never
\* changes afterwards, so VerifyCertificate applied to the payload and
\* signature IssueCertificate returned gives true, at any later point and
\* whatever issue, verify and public-key calls come in between.
C9_IssuedCertificatesVerify ==
    /\ Len(keygens) <= 1
    /\ ~secInstance.null => (Len(keygens) = 1 /\ secInstance = NewSecurityModule(keygens[1]))
    /\ \A cert \in issued :
          VerifyCertificate(secInstance, cert.payload, cert.signature) =
              [valid |-> TRUE, err |-> FALSE]
    /\ (verifyOut.called /\
          [payload |-> verifyOut.payloadJSON, signature |-> verifyOut.signatureB64] \in issued)
       => verifyOut.out.valid

\* Certificates were issued at different times, the public key was asked
\* for, and an issued certificate was then verified
C9_Witness ==
    /\ Cardinality(issued) = MaxCerts
    /\ clock > 0
    /\ pubOut.called
    /\ verifyOut.called
    /\ [payload |-> verifyOut.payloadJSON, signature |-> verifyOut.signatureB64] \in issued
    /\ verifyOut.out.valid

\* C10: VerifyCertificate returns false, without raising, when the payload
\* differs in any byte from the bytes that were signed or when the signature
\* was produced by a different key pair; the check is made on the bytes
\* received, never on a payload serialized again.
C10_AlteredOrForeignIsRejected ==
    (verifyOut.called /\ verifyOut.signatureB64.b64 /\
       verifyOut.signatureB64.bytes.kind = "sig") =>
        ((\/ verifyOut.payloadJSON # verifyOut.signatureB64.bytes.msg
          \/ verifyOut.signatureB64.bytes.signer # secInstance.publicKey.pk)
         => verifyOut.out = [valid |-> FALSE, err |-> FALSE])

\* A payload that differs from the signed bytes in the case of one letter of
\* a key, and so reads as the same certificate, was presented with the
\* issued signature and rejected
C10_Witness ==
    /\ verifyOut.called
    /\ verifyOut.signatureB64.b64
    /\ verifyOut.signatureB64.bytes.kind = "sig"
    /\ verifyOut.signatureB64.bytes.signer = secInstance.publicKey.pk
    /\ verifyOut.payloadJSON # verifyOut.signatureB64.bytes.msg
    /\ Unmarshal(verifyOut.payloadJSON) = Unmarshal(verifyOut.signatureB64.bytes.msg)
    /\ ~verifyOut.out.valid
    /\ ~verifyOut.out.err

\* C11: VerifyCertificate never raises on a malformed signature: a signature
\* that is not valid Base64 gives false together with a decode error, a
\* well-formed but wrong signature gives false with no error, so the two
\* outcomes can be told apart.
C11_MalformedAndWrongAreDistinct ==
    verifyOut.called =>
        /\ ~verifyOut.signatureB64.b64 =>
              verifyOut.out = [valid |-> FALSE, err |-> TRUE]
        /\ (verifyOut.signatureB64.b64 /\
              (\/ verifyOut.signatureB64.bytes.kind # "sig"
               \/ verifyOut.signatureB64.bytes # Sign(secInstance.privateKey,
                                                      verifyOut.payloadJSON))) =>
              verifyOut.out = [valid |-> FALSE, err |-> FALSE]

\* A signature text that is not Base64 was presented with an issued payload
\* and the call came back with the decode error
C11_Witness ==
    /\ verifyOut.called
    /\ ~verifyOut.signatureB64.b64
    /\ \E cert \in issued : cert.payload = verifyOut.payloadJSON
    /\ verifyOut.out.err
    /\ ~verifyOut.out.valid


\* C12 as stated: every payload built by IssueCertificate has expires_at
\* equal to issued_at plus exactly 24 hours (exp - iat = 86400 seconds),
\* whatever the clock does while the certificate is being issued.
C12_AsStated ==
    \A cert \in issued :
        Unmarshal(cert.payload).Expires - Unmarshal(cert.payload).Timestamp = 86400

\* C13 as stated: every certificate issued through the certificate entry
\* point carries a score in [0,1]; no signed payload with a score outside
\* [0,1] is ever produced.
C13_AsStated ==
    \A cert \in issued :
        /\ 0 <= Unmarshal(cert.payload).Score
        /\ Unmarshal(cert.payload).Score <= F(1)


C15_AsStated ==
    \A c \in Callers :
        (/\ pc[c] = "done"
         /\ req[c].kind = "score"
         /\ req[c].logs.valid
         /\ Len(req[c].logs.logs) > 0)
        => /\ (/\ \A j \in 1..Len(req[c].logs.logs) :
                     parseSingleLog(req[c].logs.logs[j]).err
               /\ ~(res[c].kind = "error" /\ res[c].error = "failed to parse logs"))
              => /\ res[c].kind = "score"
                 /\ res[c].TxnCount = 0
                 /\ "Message" \in DOMAIN res[c]
           /\ (res[c].kind = "score" /\ res[c].TxnCount > 0)
              => "Message" \notin DOMAIN res[c]


\* C16: every Transaction returned by the parser has an amount that is not
\* negative, for every input line and every pattern that can match it.
C16_AmountsAreNotNegative ==
    parseOut.called =>
        \A i \in 1..Len(parseOut.out.txns) : parseOut.out.txns[i].Amount >= 0

\* ParseLogs has returned transactions for a batch that holds a line whose
\* amount is written with a minus sign
C16_Witness ==
    /\ parseOut.called
    /\ ~parseOut.out.err
    /\ \E j \in 1..Len(logs) :
          \E k \in 1..Len(logs[j]) : logs[j][k].k = "amt" /\ logs[j][k].txt[1] = "-"
    /\ \E i \in 1..Len(parseOut.out.txns) : parseOut.out.txns[i].Amount > 0


\* C17: in every Transaction returned by the parser at most one of the
\* counterparty fields sender, recipient and lender is populated, and which
\* one is fixed by the transaction type.
C17_OneCounterpartyByType ==
    parseOut.called =>
        \A i \in 1..Len(parseOut.out.txns) :
            LET t == parseOut.out.txns[i]
                populated == {f \in {"Sender", "Recipient", "Lender"} : t[f] # <<>>}
                field ==
                    CASE t.Type \in {Txn.MPesaReceived, Txn.TKashReceived,
                                    Txn.AirtelReceived, Txn.MMFWithdraw,
                                    Txn.BankWithdraw} -> {"Sender"}
                      [] t.Type \in {Txn.MPesaSent, Txn.TKashSent, Txn.AirtelSent,
                                    Txn.MPesaPaybill, Txn.MPesaBuyGoods,
                                    Txn.MMFDeposit, Txn.BankDeposit} -> {"Recipient"}
                      [] t.Type \in {Txn.HustlerLoan, Txn.HustlerRepay,
                                    Txn.DigitalLoan, Txn.DigitalRepay} -> {"Lender"}
                      [] OTHER -> {}
            IN  Cardinality(populated) <= 1 /\ populated \subseteq field

\* ParseLogs has returned a transaction with a sender, one with a recipient
\* and one with a lender
C17_Witness ==
    /\ parseOut.called
    /\ \E i \in 1..Len(parseOut.out.txns) : parseOut.out.txns[i].Sender # <<>>
    /\ \E i \in 1..Len(parseOut.out.txns) : parseOut.out.txns[i].Recipient # <<>>
    /\ \E i \in 1..Len(parseOut.out.txns) : parseOut.out.txns[i].Lender # <<>>


\* The six features from the hustler-fund balance to the savings-fund ratio
\* stand in f at the indices k, k + 1, ..., k + 5 of the Go slice
LayoutFrom(f, txns, k) ==
    LET of(types) == {j \in 1..Len(txns) : txns[j].Type \in types}
        a == VectorizeLoop(Acc0, txns)
    IN  /\ f[k + 1] = a.hustlerBalance
        /\ f[k + 2] = F(Cardinality(of({Txn.OkoaReceived, Txn.OkoaDebt})))
        /\ f[k + 3] = sum([j \in 1..Len(txns) |->
                             IF j \in of({Txn.AirtelReceived, Txn.AirtelSent})
                             THEN txns[j].Amount ELSE 0])
        /\ f[k + 4] = F(Cardinality({txns[j].Lender :
                                       j \in of({Txn.DigitalLoan, Txn.DigitalRepay})}
                                    \ {<<>>}))
        /\ f[k + 5] = safeDiv(FAdd(a.okoaAmount, a.fulizaBorrowed), a.totalIncome)
        /\ f[k + 6] = safeDiv(a.mmfDeposits, a.totalIncome)

\* C18 as stated: in the 22-element vector returned by Vectorize, index 14
\* holds the hustler-fund outstanding balance, index 15 the
\* prepaid-credit-advance event count, index 16 the alternate-transfer-network
\* volume, index 17 the unique third-party-lender count, index 18 the
\* emergency-borrowing ratio and index 19 the savings-fund ratio.
C18_AsStated ==
    (vecOut.called /\ vecIn # <<>>) => LayoutFrom(vecOut.features, vecIn, 14)

\* C18, amended: in the 22-element vector returned by Vectorize, index 14
\* holds the average daily volume, index 15 the hustler-fund outstanding
\* balance, index 16 the prepaid-credit-advance event count, index 17 the
\* alternate-transfer-network volume, index 18 the unique third-party-lender
\* count, index 19 the emergency-borrowing ratio and index 20 the
\* savings-fund ratio.
C18_LayoutFromFifteen ==
    (vecOut.called /\ vecIn # <<>>) =>
        /\ vecOut.features[15] =
              safeDiv(sum([j \in 1..Len(vecIn) |-> vecIn[j].Amount]),
                      FMin(F(Len(vecIn)), F(30)))
        /\ LayoutFrom(vecOut.features, vecIn, 15)

\* Vectorize has run on a Hustler Fund loan and an Okoa advance, which put a
\* balance at index 15 and a count at index 16
C18_Witness ==
    /\ vecOut.called
    /\ \E i \in 1..Len(vecIn) : vecIn[i].Type = Txn.HustlerLoan
    /\ \E i \in 1..Len(vecIn) : vecIn[i].Type = Txn.OkoaReceived
    /\ vecOut.features[16] > 0
    /\ vecOut.features[17] = F(1)
    /\ vecOut.features[15] # vecOut.features[16]


\* C19 as stated: parseAmount strips a leading currency prefix (Ksh or KES
\* in any letter case) and thousands separators and returns the decimal
\* value; for empty or non-numeric text it returns 0 and never raises.
C19_AsStated ==
    amountOut.called =>
        IF amountIn.body.numeric
        THEN amountOut.out = amountIn.body.value
        ELSE amountOut.out = 0


\* C20 as stated: a line of the form "<ref> Confirmed. You have received
\* Ksh<amt> from <name>" is parsed as M-Pesa received with that amount and
\* that reference code, for any alphanumeric reference code and not only
\* those that start with UA.
C20_AsStated ==
    (parseOut.called /\ ~parseOut.ctx.cancelled) =>
        \A j \in 1..Len(logs) :
            LET l == logs[j]
            IN  (/\ Len(l) >= 9
                 /\ l[1].k = "ref"
                 /\ l[2] = W("CONFIRMED") /\ l[3] = P(".")
                 /\ l[4] = W("YOU") /\ l[5] = W("HAVE") /\ l[6] = W("RECEIVED")
                 /\ l[7].k = "amt" /\ l[7].cur = "Ksh"
                 /\ AmtMatchLen(l[7].txt) = Len(l[7].txt)
                 /\ l[8] = W("FROM")
                 /\ Alpha(l, 9))
                => \E i \in 1..Len(parseOut.out.txns) :
                      LET t == parseOut.out.txns[i]
                      IN  /\ t.RawText = l
                          /\ t.Type = Txn.MPesaReceived
                          /\ t.Amount = parseAmount(l[7].txt)
                          /\ t.RefCode = l[1].txt


\* C21 as stated: a line reporting money sent to Hustler Fund ("Confirmed.
\* You have sent Ksh<amt> to Hustler Fund ...") is parsed as a Hustler
\* repayment with that amount.
C21_AsStated ==
    (parseOut.called /\ ~parseOut.ctx.cancelled) =>
        \A j \in 1..Len(logs) :
            LET l == logs[j]
            IN  (/\ Len(l) >= 9
                 /\ l[1] = W("CONFIRMED") /\ l[2] = P(".")
                 /\ l[3] = W("YOU") /\ l[4] = W("HAVE") /\ l[5] = W("SENT")
                 /\ l[6].k = "amt" /\ l[6].cur = "Ksh"
                 /\ AmtMatchLen(l[6].txt) = Len(l[6].txt)
                 /\ l[7] = W("TO") /\ l[8] = W("HUSTLER") /\ l[9] = W("FUND"))
                => \E i \in 1..Len(parseOut.out.txns) :
                      LET t == parseOut.out.txns[i]
                      IN  /\ t.RawText = l
                          /\ t.Type = Txn.HustlerRepay
                          /\ t.Amount = parseAmount(l[6].txt)


\* C22 as stated: a line that reports both an Okoa Jahazi amount received
\* and an Okoa debt ("You have received Ksh X Okoa Jahazi. Your Okoa debt is
\* Ksh Y.") is parsed as one Okoa-received Transaction whose amount is X and
\* whose balance is Y.
C22_AsStated ==
    (parseOut.called /\ ~parseOut.ctx.cancelled) =>
        \A j \in 1..Len(logs) :
            LET l == logs[j]
            IN  (/\ Len(l) = 12
                 /\ l[1] = W("YOU") /\ l[2] = W("HAVE") /\ l[3] = W("RECEIVED")
                 /\ l[4].k = "amt" /\ l[4].cur = "Ksh"
                 /\ AmtMatchLen(l[4].txt) = Len(l[4].txt)
                 /\ l[5] = W("OKOA") /\ l[6] = W("JAHAZI") /\ l[7] = P(".")
                 /\ l[8] = W("YOUR") /\ l[9] = W("OKOA") /\ l[10] = W("DEBT")
                 /\ l[11] = W("IS")
                 /\ l[12].k = "amt" /\ l[12].cur = "Ksh"
                 /\ AmtMatchLen(l[12].txt) > 0)
                => LET S == {i \in 1..Len(parseOut.out.txns) :
                                parseOut.out.txns[i].RawText = l}
                   IN  /\ Cardinality(S) = 1
                       /\ \A i \in S :
                             LET t == parseOut.out.txns[i]
                             IN  /\ t.Type = Txn.OkoaReceived
                                 /\ t.Amount = parseAmount(l[4].txt)
                                 /\ t.Balance = AmountAt(l, 12)


\* C23 as stated: a line of the form "Transaction ID: AM<code>. Ksh<amt> sent
\* to <name>" is parsed as Airtel sent with that amount for every reference
\* code that begins with AM, whatever character follows AM and without the
\* word Airtel in the line.
C23_AsStated ==
    (parseOut.called /\ ~parseOut.ctx.cancelled) =>
        \A j \in 1..Len(logs) :
            LET l == logs[j]
            IN  (/\ Len(l) >= 9
                 /\ l[1] = W("TRANSACTION") /\ l[2] = W("ID") /\ l[3] = P(":")
                 /\ l[4].k = "ref" /\ Len(l[4].txt) > 2
                 /\ l[4].txt[1] = "A" /\ l[4].txt[2] = "M"
                 /\ l[5] = P(".")
                 /\ l[6].k = "amt" /\ l[6].cur = "Ksh"
                 /\ AmtMatchLen(l[6].txt) = Len(l[6].txt)
                 /\ l[7] = W("SENT") /\ l[8] = W("TO")
                 /\ Alpha(l, 9))
                => \E i \in 1..Len(parseOut.out.txns) :
                      LET t == parseOut.out.txns[i]
                      IN  /\ t.RawText = l
                          /\ t.Type = Txn.AirtelSent
                          /\ t.Amount = parseAmount(l[6].txt)


\* C24: ParseLogs reads the cancel signal only at line indices that are
\* multiples of 100.  A cancellation raised after the check at index 100k is
\* acted on at index 100(k+1) and not before, so the error, when there is
\* one, names the first checkpoint at or after the cancellation, and a batch
\* that ends before that checkpoint completes without error with all its
\* Transactions.
C24_CancelReadAtStrideOnly ==
    (parseOut.called /\ parseOut.ctx.cancelled) =>
        LET next == ((parseOut.ctx.at + CheckStride - 1) \div CheckStride) * CheckStride
            parsed == [j \in 1..Len(logs) |-> parseSingleLog(logs[j])]
            matching == {j \in 1..Len(logs) : ~parsed[j].err}
        IN  /\ parseOut.out.err => (parseOut.out.at = next /\ next < Len(logs))
            /\ Len(logs) <= next =>
                  /\ ~parseOut.out.err
                  /\ ~parseOut.out.nilList
                  /\ Len(parseOut.out.txns) = Cardinality(matching)
                  /\ \A j \in matching :
                        parseOut.out.txns[Cardinality({k \in matching : k <= j})] =
                            parsed[j].txn

\* The signal was raised after the check at index 100 and before the end of
\* the batch, the batch ended before index 200, and ParseLogs returned its
\* transactions
C24_Witness ==
    /\ parseOut.called
    /\ parseOut.ctx.cancelled
    /\ parseOut.ctx.at > CheckStride
    /\ parseOut.ctx.at < Len(logs)
    /\ ~parseOut.out.err
    /\ Len(parseOut.out.txns) > CheckStride


\* The line has none of the keywords that select a provider's matcher
NoProviderKeyword(l) ==
    /\ ~Contains(l, "AIRTEL") /\ ~ContainsAM1(l)
    /\ ~Contains(l, "HUSTLER") /\ ~Contains(l, "OKOA")
    /\ ~Contains(l, "M-SHWARI") /\ ~Contains(l, "MALI") /\ ~Contains(l, "STAWI")
    /\ KwEnds(l, <<"KCB", "M-PESA">>) = {}
    /\ ~Contains(l, "TALA") /\ ~Contains(l, "BRANCH") /\ ~Contains(l, "ZENKA")
    /\ ~Contains(l, "ZASH") /\ ~Contains(l, "OKOLEA")
    /\ ~Contains(l, "T-KASH") /\ ~Contains(l, "FULIZA")

\* The types of the Transactions returned for the line l
TypesFor(l) ==
    {parseOut.out.txns[i].Type :
        i \in {k \in 1..Len(parseOut.out.txns) : parseOut.out.txns[k].RawText = l}}

\* C25: within the matcher selected for a line the first pattern that
\* matches, in a fixed order, decides the Transaction.  For a line with none
\* of the provider keywords the order is M-Pesa received, sent, paybill,
\* buy-goods, then the gambling keywords, then the bank patterns, so a line
\* that matches an M-Pesa pattern is never classified as gambling or bank;
\* for an Okoa line the order is received, debt, repaid.
C25_FirstMatchDecides ==
    (parseOut.called /\ ~parseOut.ctx.cancelled) =>
        \A j \in 1..Len(logs) :
            LET l == logs[j]
                bank == bankTransferPattern(l)
                first ==
                    IF mpesaReceivedPattern(l).ok THEN {Txn.MPesaReceived}
                    ELSE IF mpesaSentPattern(l).ok THEN {Txn.MPesaSent}
                    ELSE IF mpesaPaybillPattern(l).ok THEN {Txn.MPesaPaybill}
                    ELSE IF mpesaBuyGoodsPattern(l).ok THEN {Txn.MPesaBuyGoods}
                    ELSE IF gamblingPattern(l) THEN {Txn.Gambling}
                    ELSE IF bank /\ bankDepositPattern(l).ok THEN {Txn.BankDeposit}
                    ELSE IF bank /\ bankWithdrawPattern(l).ok THEN {Txn.BankWithdraw}
                    ELSE {}
                okoa ==
                    IF okoaReceivedPattern(l).ok THEN {Txn.OkoaReceived}
                    ELSE IF okoaDebtPattern(l).ok \/ okoaRepayPattern(l).ok
                    THEN {Txn.OkoaDebt}
                    ELSE {}
            IN  /\ NoProviderKeyword(l) => TypesFor(l) = first
                /\ (/\ NoProviderKeyword(l)
                    /\ \/ mpesaReceivedPattern(l).ok \/ mpesaSentPattern(l).ok
                       \/ mpesaPaybillPattern(l).ok \/ mpesaBuyGoodsPattern(l).ok)
                   => TypesFor(l) \cap {Txn.Gambling, Txn.BankDeposit,
                                        Txn.BankWithdraw} = {}
                /\ (/\ Contains(l, "OKOA") /\ ~Contains(l, "HUSTLER")
                    /\ ~Contains(l, "AIRTEL") /\ ~ContainsAM1(l))
                   => TypesFor(l) = okoa

\* ParseLogs has returned M-Pesa transactions for a line that names a
\* betting platform and for a line that a bank pattern matches, and an Okoa
\* advance for a line that the debt pattern matches as well
C25_Witness ==
    /\ parseOut.called
    /\ ~parseOut.ctx.cancelled
    /\ \E j \in 1..Len(logs) :
          /\ gamblingPattern(logs[j])
          /\ TypesFor(logs[j]) = {Txn.MPesaSent}
    /\ \E j \in 1..Len(logs) :
          /\ bankTransferPattern(logs[j]) /\ bankWithdrawPattern(logs[j]).ok
          /\ TypesFor(logs[j]) = {Txn.MPesaReceived}


\* C26 as stated: the Hustler-balance feature of Vectorize (index 15) equals
\* the balance reported by the latest Hustler loan Transaction, in input
\* order, that carries a balance.
C26_AsStated ==
    vecOut.called =>
        LET S == {j \in 1..Len(vecIn) :
                     vecIn[j].Type = Txn.HustlerLoan /\ vecIn[j].Balance > 0}
        IN  S # {} => vecOut.features[16] = vecIn[MaxOf(S)].Balance


\* C27 as stated: a line in M-Pesa till format ("<ref> Confirmed. Ksh<amt>
\* paid to <merchant> Till Number ...", the reference code one of the UA
\* series) is parsed as buy-goods with the merchant as recipient, not as
\* paybill.
C27_AsStated ==
    (parseOut.called /\ ~parseOut.ctx.cancelled) =>
        \A j \in 1..Len(logs) :
            LET l == logs[j]
            IN  (/\ Len(l) >= 9
                 /\ l[1].k = "ref" /\ UAStarts(l[1].txt) = {1}
                 /\ l[2] = W("CONFIRMED") /\ l[3] = P(".")
                 /\ l[4].k = "amt" /\ l[4].cur = "Ksh"
                 /\ AmtMatchLen(l[4].txt) = Len(l[4].txt)
                 /\ l[5] = W("PAID") /\ l[6] = W("TO")
                 /\ Alpha(l, 7) /\ NoProviderKeyword(l)
                 /\ l[8] = W("TILL") /\ l[9] = W("NUMBER"))
                => \E i \in 1..Len(parseOut.out.txns) :
                      LET t == parseOut.out.txns[i]
                      IN  /\ t.RawText = l
                          /\ t.Type = Txn.MPesaBuyGoods
                          /\ t.Recipient = <<l[7].s>>


\* C28 as stated: when the model loader panics during the first GetEngine
\* call and the panic is recovered, every GetEngine caller, including
\* callers running concurrently, still receives one and the same non-nil
\* engine instance, and that instance is degraded.
C28_AsStated ==
    (loads # <<>> /\ loads[1] = "panic") =>
        /\ \A c \in Callers :
              pc[c] \in {"predict", "done"} =>
                  (~seen[c].null /\ seen[c].ensemble.null)
        /\ \A c, d \in Callers :
              (pc[c] \in {"predict", "done"} /\ pc[d] \in {"predict", "done"}) =>
                  seen[c] = seen[d]


\* The input with the transactions at k and k + 1 exchanged
Swapped(txns, k) == [txns EXCEPT ![k] = txns[k + 1], ![k + 1] = txns[k]]

\* C29: every element of Vectorize's output other than the Hustler-balance
\* feature (index 15) and the emergency-reliance feature (index 19) is
\* unchanged when the input Transactions are reordered.  Every input
\* sequence is gone through, so it is enough that exchanging two neighbours
\* changes nothing: every reordering is a succession of such exchanges.
C29_OrderDoesNotMatter ==
    vecOut.called =>
        \A k \in 1..(Len(vecIn) - 1) :
            LET g == Vectorize(Swapped(vecIn, k))
            IN  \A i \in (1..featureCount) \ {16, 20} : g[i] = vecOut.features[i]

\* Vectorize has run on two transactions whose order decides the Hustler
\* balance, and has put sums, a maximum and a deviation in the vector
C29_Witness ==
    /\ vecOut.called
    /\ Len(vecIn) >= 2
    /\ vecOut.features[1] > 0
    /\ vecOut.features[12] > 0
    /\ vecOut.features[13] > 0
    /\ Vectorize(Swapped(vecIn, 1))[16] # vecOut.features[16]


\* The sub-matcher the keyword scan selects for the line
Selected(l) ==
    IF Contains(l, "AIRTEL") \/ ContainsAM1(l) THEN "airtel"
    ELSE IF Contains(l, "HUSTLER") THEN "hustler"
    ELSE IF Contains(l, "OKOA") THEN "okoa"
    ELSE IF \/ Contains(l, "M-SHWARI") \/ Contains(l, "MALI")
            \/ Contains(l, "STAWI") \/ KwEnds(l, <<"KCB", "M-PESA">>) # {}
    THEN "mmf"
    ELSE IF \/ Contains(l, "TALA") \/ Contains(l, "BRANCH") \/ Contains(l, "ZENKA")
            \/ Contains(l, "ZASH") \/ Contains(l, "OKOLEA")
    THEN "lender"
    ELSE IF Contains(l, "T-KASH") THEN "tkash"
    ELSE IF Contains(l, "FULIZA") THEN "fuliza"
    ELSE "default"

\* The types each sub-matcher can give a Transaction
MatcherTypes ==
    [airtel |-> {Txn.AirtelReceived, Txn.AirtelSent},
     hustler |-> {Txn.HustlerLoan, Txn.HustlerRepay},
     okoa |-> {Txn.OkoaReceived, Txn.OkoaDebt},
     mmf |-> {Txn.MMFDeposit, Txn.MMFWithdraw},
     lender |-> {Txn.DigitalLoan, Txn.DigitalRepay},
     tkash |-> {Txn.TKashReceived, Txn.TKashSent},
     fuliza |-> {Txn.FulizaLoan, Txn.FulizaRepay}]

\* One of the patterns of the sub-matcher m matches the line
MatchesIn(m, l) ==
    CASE m = "airtel" ->
           \/ airtelReceivedPattern(l).ok \/ airtelSentPattern(l).ok
           \/ (airtelGenericPattern(l) /\ amountPattern(l).ok)
      [] m = "hustler" ->
           \/ hustlerLoanPattern(l).ok \/ hustlerRepayPattern(l).ok
           \/ hustlerBalancePattern(l).ok
      [] m = "okoa" ->
           \/ okoaReceivedPattern(l).ok \/ okoaDebtPattern(l).ok
           \/ okoaRepayPattern(l).ok
      [] m = "mmf" ->
           \/ mshwariDepositPattern(l).ok \/ mshwariWithdrawPattern(l).ok
           \/ kcbMpesaSavePattern(l).ok \/ maliSavePattern(l).ok
           \/ stawiSavePattern(l).ok
           \/ (mmfPattern(l) /\ amountPattern(l).ok)
      [] m = "lender" ->
           \/ loanDisbursementPattern(l).ok \/ loanRepaymentPattern(l).ok
           \/ (digitalLenderPattern(l) # <<>> /\ amountPattern(l).ok)
      [] m = "tkash" -> tkashReceivedPattern(l).ok \/ tkashSentPattern(l).ok
      [] m = "fuliza" -> fulizaLoanPattern(l).ok \/ fulizaRepayPattern(l).ok

\* C30: the keyword scan selects exactly one sub-matcher, by the fixed order
\* Airtel, Hustler, Okoa, savings fund, digital lender, T-Kash, Fuliza.  The
\* line's Transaction, if any, is of a type of that sub-matcher; a line that
\* matches none of its patterns yields no Transaction, whatever a later
\* sub-matcher or the default matcher would have made of it.
C30_OneMatcherPerLine ==
    (parseOut.called /\ ~parseOut.ctx.cancelled) =>
        \A j \in 1..Len(logs) :
            LET l == logs[j]
                m == Selected(l)
            IN  m # "default" =>
                    /\ TypesFor(l) \subseteq MatcherTypes[m]
                    /\ MatchesIn(m, l) => TypesFor(l) # {}
                    /\ ~MatchesIn(m, l) => TypesFor(l) = {}

\* ParseLogs has returned nothing for a Hustler line that the M-Pesa
\* received pattern matches and nothing for an Airtel line that the Hustler
\* repayment pattern matches, and a T-Kash transaction for a line that also
\* names Fuliza
C30_Witness ==
    /\ parseOut.called
    /\ ~parseOut.ctx.cancelled
    /\ \E j \in 1..Len(logs) :
          /\ Selected(logs[j]) = "hustler"
          /\ mpesaReceivedPattern(logs[j]).ok
          /\ TypesFor(logs[j]) = {}
    /\ \E j \in 1..Len(logs) :
          /\ Selected(logs[j]) = "airtel"
          /\ hustlerRepayPattern(logs[j]).ok
          /\ TypesFor(logs[j]) = {}
    /\ \E j \in 1..Len(logs) :
          /\ Selected(logs[j]) = "tkash"
          /\ Contains(logs[j], "FULIZA")
          /\ TypesFor(logs[j]) = {Txn.TKashSent}

=============================================================================
